---- MODULE Spec2Model ----
(***************************************************************************)
(* ptnet-mgrd: the connection multiplexer (client_connection.rs), the      *)
(* session supervisor (main.rs), the NodeScan and Persist processes        *)
(* (ptnet_process/), the node store (database/node_table.rs) and the wire  *)
(* codec (ptnet/scanner.rs).                                               *)
(*                                                                         *)
(* Scheduling: every process of a session is a future polled by one task   *)
(* (try_join_all in client_connect), so a process runs from one await to   *)
(* the next without interruption.  One action of the model is one such     *)
(* run.  The gateway, the socket and the timers are the environment.       *)
(***************************************************************************)
EXTENDS Integers, Sequences, FiniteSets, TLC

(***************************************************************************)
(* Bounds of the model.                                                    *)
(***************************************************************************)
\* Size of the request-id space.  The code's counter is a u16 (2^16 ids);
\* the model keeps the arithmetic (+1 modulo the size) on a smaller space.
IdModulus == 2
\* Capacity of a broadcast channel.  The code passes 128
\* (client_connection.rs:64-65); the model keeps the ring semantics on a
\* smaller ring.
ChanCapacity == 1
\* Frames the callers of the multiplexer harness write at most: one more
\* than the id space, so that an id is used a second time.
MaxSends == IdModulus + 1
\* Scans NodeScan starts in one session at most: the id space, so that the
\* counter wraps.
MaxScans == IdModulus

None == "none"
\* Option<T>: Nil is None, Some(v) is Some(v).
Nil == <<>>
Some(v) == <<v>>

(***************************************************************************)
(* Wire codec: ptnet/scanner.rs, ptnet/ptnet.rs.                           *)
(* A packet is a sequence of bytes (0..255).                               *)
(***************************************************************************)
U8 == 256

\* TIBits::size: the size bits of the TI byte (TI161 = 0xA1 -> 5 bytes,
\* TI34 = 0x22 -> 1, TI131 = 0x83 -> 4, TI232 = 0xE8 -> 7, TI25 -> 0).
TISize(ti) == ti \div 32

\* VSQBits::n and VSQBits::sq (0x15 is N = 5 with SQ set, 0x03 is N = 3).
VsqN(vsq) == vsq % 16
VsqSq(vsq) == (vsq \div 16) % 2 = 1

\* ASDH: byte 0 is CA, byte 1 carries COT and P/N (5 is REQ, 3 is SPONT).
AsdhCot(b) == b % 64
AsdhPn(b) == b \div 128 = 1
MkASDH(ca, cotpn) == [ca |-> ca, cot |-> AsdhCot(cotpn), pn |-> AsdhPn(cotpn)]

\* COT::REQ is 5 in the scanner's test packets.  The U_* causes are bound from
\* the C header of the protocol; scanning only needs them distinct from the
\* causes the payloads carry.
COT_REQ == 5
COT_U_TI == 44
COT_U_COT == 45
COT_U_IOA == 47

\* ASDH::with(ca, cot, pn)
ASDHWith(ca, cot, pn) == [ca |-> ca, cot |-> cot, pn |-> pn]

\* Scanner::new
ScannerNew ==
    [state |-> "ScanASDH", pos |-> 0, ioa |-> 0, ies_remaining |-> 0,
     asdh |-> MkASDH(0, 0), dui |-> [ti |-> 0, vsq |-> 0]]

SubSeqFrom(pkt, pos, n) == SubSeq(pkt, pos + 1, pos + n)

\* An arithmetic overflow of `x + 1` on a u8: the build decides whether it
\* panics (overflow checks on) or wraps.
AddU8(x, checked) ==
    IF x + 1 >= U8
    THEN IF checked THEN [panic |-> TRUE, v |-> x] ELSE [panic |-> FALSE, v |-> 0]
    ELSE [panic |-> FALSE, v |-> x + 1]

\* A call of next_token that returns Err(r) and leaves the scanner as s.
ScanErr(r, s) == [res |-> r, tok |-> [k |-> None], sc |-> s]

\* Variant of ScanDUI: the scanner steps over the DUI before it looks at
\* VSQ.N.
ScanDUI_advanceFirst(sc, pkt) ==
    LET rem == Len(pkt) - sc.pos IN
    IF rem = 0 THEN ScanErr("eof", sc)
    ELSE IF rem < 2 THEN ScanErr("short", sc)
    ELSE LET dui == [ti |-> pkt[sc.pos + 1], vsq |-> pkt[sc.pos + 2]]
             s1 == [sc EXCEPT !.dui = dui, !.ies_remaining = VsqN(dui.vsq),
                              !.pos = sc.pos + 2, !.state = "ScanIOA"]
         IN IF VsqN(dui.vsq) = 0 THEN ScanErr("invalid", s1)
            ELSE [res |-> "ok", tok |-> [k |-> "DUI", v |-> dui], sc |-> s1]

\* next_token in State::ScanDUI
ScanDUI(sc, pkt) ==
    LET rem == Len(pkt) - sc.pos IN
    IF rem = 0 THEN ScanErr("eof", sc)
    ELSE IF rem < 2 THEN ScanErr("short", sc)
    ELSE LET dui == [ti |-> pkt[sc.pos + 1], vsq |-> pkt[sc.pos + 2]]
             s1 == [sc EXCEPT !.dui = dui, !.ies_remaining = VsqN(dui.vsq)]
         IN IF VsqN(dui.vsq) = 0 THEN ScanErr("invalid", s1)
            ELSE [res |-> "ok", tok |-> [k |-> "DUI", v |-> dui],
                  sc |-> [s1 EXCEPT !.pos = sc.pos + 2, !.state = "ScanIOA"]]

\* Variant of ScanIOA: the cause of transmission is not looked at, an IE
\* is expected after every IOA.
ScanIOA_alwaysIE(sc, pkt) ==
    LET rem == Len(pkt) - sc.pos IN
    IF rem < 1 THEN ScanErr("short", sc)
    ELSE [res |-> "ok", tok |-> [k |-> "IOA", v |-> pkt[sc.pos + 1]],
          sc |-> [sc EXCEPT !.ioa = pkt[sc.pos + 1], !.pos = sc.pos + 1,
                            !.state = "ScanIE"]]

\* Variant of ScanIOA: with a cause U_TI, U_COT or U_IOA the count of the
\* DUI is left as it is.
ScanIOA_noDecrement(sc, pkt) ==
    LET rem == Len(pkt) - sc.pos IN
    IF rem < 1 THEN ScanErr("short", sc)
    ELSE LET ioa == pkt[sc.pos + 1]
             s1 == [sc EXCEPT !.ioa = ioa, !.pos = sc.pos + 1]
         IN [res |-> "ok", tok |-> [k |-> "IOA", v |-> ioa],
             sc |-> IF sc.asdh.cot \in {COT_U_TI, COT_U_COT, COT_U_IOA}
                    THEN [s1 EXCEPT !.state = "ScanDUI"]
                    ELSE [s1 EXCEPT !.state = "ScanIE"]]

\* next_token in State::ScanIOA
ScanIOA(sc, pkt) ==
    LET rem == Len(pkt) - sc.pos IN
    IF rem < 1 THEN ScanErr("short", sc)
    ELSE LET ioa == pkt[sc.pos + 1]
             s1 == [sc EXCEPT !.ioa = ioa, !.pos = sc.pos + 1]
         IN [res |-> "ok", tok |-> [k |-> "IOA", v |-> ioa],
             sc |-> IF sc.asdh.cot \in {COT_U_TI, COT_U_COT, COT_U_IOA}
                    THEN [s1 EXCEPT !.ies_remaining = sc.ies_remaining - 1,
                                    !.state = "ScanDUI"]
                    ELSE [s1 EXCEPT !.state = "ScanIE"]]

\* Scanner::next_token.  The result is [res, tok, sc]: res is "ok" (tok is
\* the token), "eof", "short", "invalid" or "panic"; sc is the scanner
\* afterwards.
NextToken(sc, pkt, checked) ==
    LET rem == Len(pkt) - sc.pos
        fail(r, s) == ScanErr(r, s)
    IN
    CASE sc.state = "ScanASDH" ->
           IF rem < 2 THEN fail("short", sc)
           ELSE LET asdh == MkASDH(pkt[sc.pos + 1], pkt[sc.pos + 2])
                IN [res |-> "ok", tok |-> [k |-> "ASDH", v |-> asdh],
                    sc |-> [sc EXCEPT !.asdh = asdh, !.pos = sc.pos + 2,
                                      !.state = "ScanDUI"]]
      [] sc.state = "ScanDUI" -> ScanDUI(sc, pkt)
      [] sc.state = "ScanIOA" -> ScanIOA(sc, pkt)
      [] sc.state = "ScanIE" ->
           LET sz == TISize(sc.dui.ti) IN
           IF rem < sz THEN fail("short", sc)
           ELSE LET ie == [ti |-> sc.dui.ti, bytes |-> SubSeqFrom(pkt, sc.pos, sz)]
                    left == sc.ies_remaining - 1
                    s1 == [sc EXCEPT !.pos = sc.pos + sz, !.ies_remaining = left]
                    inc == AddU8(sc.ioa, checked)
                IN IF left > 0
                   THEN IF VsqSq(sc.dui.vsq)
                        THEN IF inc.panic THEN fail("panic", s1)
                             ELSE [res |-> "ok", tok |-> [k |-> "IE", v |-> ie],
                                   sc |-> [s1 EXCEPT !.state = "ScanIE", !.ioa = inc.v]]
                        ELSE [res |-> "ok", tok |-> [k |-> "IE", v |-> ie],
                              sc |-> [s1 EXCEPT !.state = "ScanIOA"]]
                   ELSE [res |-> "ok", tok |-> [k |-> "IE", v |-> ie],
                         sc |-> [s1 EXCEPT !.state = "ScanDUI"]]

\* Scanner::into_iob_iter
IntoIobIter(sc) == [scanner |-> sc, asdh |-> Nil, dui |-> Nil, ioa |-> Nil]

\* ScannerIntoIOBIterator::next.  The result is [res, iob, it]: res is "ok"
\* (Some(Ok(iob))), "end" (None), "err" (Some(Err(_))) or "panic".
RECURSIVE IobNext(_, _, _)
IobNext(it, pkt, checked) ==
    LET r == NextToken(it.scanner, pkt, checked)
        it1 == [it EXCEPT !.scanner = r.sc]
        stop(res) == [res |-> res, it |-> it1]
    IN
    CASE r.res = "eof" -> stop("end")
      [] r.res \in {"short", "invalid"} -> stop("err")
      [] r.res = "panic" -> stop("panic")
      [] r.res = "ok" /\ r.tok.k = "ASDH" ->
           IobNext([it1 EXCEPT !.asdh = Some(r.tok.v)], pkt, checked)
      [] r.res = "ok" /\ r.tok.k = "DUI" ->
           IobNext([it1 EXCEPT !.dui = Some(r.tok.v)], pkt, checked)
      [] r.res = "ok" /\ r.tok.k = "IOA" ->
           IobNext([it1 EXCEPT !.ioa = Some(r.tok.v)], pkt, checked)
      [] r.res = "ok" /\ r.tok.k = "IE" ->
           IF it.asdh = Nil \/ it.dui = Nil \/ it.ioa = Nil THEN stop("err")
           ELSE LET dui == it.dui[1]
                    inc == AddU8(it.ioa[1], checked)
                IN IF VsqSq(dui.vsq) /\ inc.panic THEN stop("panic")
                   ELSE [res |-> "ok",
                         iob |-> [asdh |-> it.asdh[1], dui |-> dui, ioa |-> it.ioa[1],
                                  ie |-> r.tok.v],
                         it |-> [it1 EXCEPT !.ioa = IF VsqSq(dui.vsq) THEN Some(inc.v)
                                                    ELSE Nil]]


\* The packets the gateway sends as server message payloads.
\* TI232 (device status, 7 bytes) at IOA 1 under ASDH {0x3E, REQ}: the
\* response NodeScan waits for.
PktStatus == <<62, 5, 232, 1, 1, 1, 0, 0, 0, 0, 0, 0>>
\* TI233 (device descriptor, 7 bytes) at IOA 2.
PktDescriptor == <<62, 5, 233, 1, 2, 7, 0, 0, 0, 0, 0, 0>>
\* Two groups: TI232 at IOA 1, then a TI233 group cut after its IOA: the
\* iterator yields one IOB and then ShortRead.
PktStatusThenShort == <<62, 5, 232, 1, 1, 2, 0, 0, 0, 0, 0, 0, 233, 1, 2>>
\* Two groups of TI25 (no bytes): one element at IOA 7, then a sequence
\* (SQ) of one element at IOA 255.
PktThenLastIoa == <<62, 5, 25, 1, 7, 25, 17, 255>>

(***************************************************************************)
(* Builder: ptnet/packet.rs.  The buffer is the sequence of the bytes      *)
(* written; every call appends the raw bytes of its argument.              *)
(***************************************************************************)
\* VSQ::with(n, sq), as the VSQ byte (N in the low bits, then SQ).
VSQWith(n, sq) == (n % 16) + (IF sq THEN 16 ELSE 0)
\* DUI::with_direct(tc, n, sq)
DUIWithDirect(tc, n, sq) == [ti |-> tc, vsq |-> VSQWith(n, sq)]

\* PtNetPacket::with_asdh on an empty buffer: CA, then COT with P/N.
WithAsdh(asdh) == <<asdh.ca, asdh.cot + (IF asdh.pn THEN 128 ELSE 0)>>
\* PtNetPacket::begin_asdu
BeginAsdu(buf, dui) == buf \o <<dui.ti, dui.vsq>>
\* PtNetPacket::add_ioa
AddIoa(buf, ioa) == buf \o <<ioa>>
\* PtNetPacket::add_ie: the bytes of the IE struct.
AddIe(buf, ie) == buf \o ie.bytes

\* The buffer after a sequence of builder calls [op, v] that starts with
\* with_asdh.
RECURSIVE BuildPacket(_)
BuildPacket(calls) ==
    IF Len(calls) = 1 THEN WithAsdh(calls[1].v)
    ELSE LET buf == BuildPacket(SubSeq(calls, 1, Len(calls) - 1))
             c == calls[Len(calls)]
         IN CASE c.op = "begin_asdu" -> BeginAsdu(buf, c.v)
              [] c.op = "add_ioa" -> AddIoa(buf, c.v)
              [] c.op = "add_ie" -> AddIe(buf, c.v)

\* IEs per group the packets of the model carry at most.
MaxN == 2

\* The k-th IE of a group of type ti: a struct of TISize(ti) bytes (TI25
\* has none, TI34 one).
IeOf(ti, k) == [ti |-> ti, bytes |-> [j \in 1..TISize(ti) |-> 16 * k]]

\* The builder calls of one group under the ASDH asdh: with a cause U_TI,
\* U_COT or U_IOA one IOA and no IE, whatever the DUI's N and SQ; otherwise N pairs (IOA, IE) or, in
\* sequence mode, one IOA and N IEs.  A DUI with N = 0 has no items.
CodecGroups(asdh) ==
    LET tis == {25, 34}
        ioas == {50, 255}
        call(op, v) == [op |-> op, v |-> v]
        begin(ti, n, sq) == <<call("begin_asdu", DUIWithDirect(ti, n, sq))>>
        pairs(ti, n, a) ==
            [j \in 1..(2 * n) |-> IF j % 2 = 1 THEN call("add_ioa", a[(j + 1) \div 2])
                                  ELSE call("add_ie", IeOf(ti, j \div 2))]
        run(ti, n, base) ==
            <<call("add_ioa", base)>> \o [k \in 1..n |-> call("add_ie", IeOf(ti, k))]
        empty == {begin(ti, 0, sq) : ti \in tis, sq \in BOOLEAN}
    IN IF asdh.cot \in {COT_U_TI, COT_U_COT, COT_U_IOA}
       THEN empty \cup {begin(ti, n, sq) \o <<call("add_ioa", i)>> :
                           ti \in tis, n \in 1..MaxN, sq \in BOOLEAN, i \in ioas}
       ELSE empty
            \cup UNION {{begin(ti, n, FALSE) \o pairs(ti, n, a) : a \in [1..n -> ioas]} :
                            ti \in tis, n \in 1..MaxN}
            \cup {begin(ti, n, TRUE) \o run(ti, n, base) :
                            ti \in tis, n \in 1..MaxN, base \in ioas}

\* The sequences of builder calls of the model: an ASDH and up to two
\* groups.
CodecInputs ==
    UNION {{<<[op |-> "with_asdh", v |-> a]>> \o g \o h :
                g \in CodecGroups(a) \cup {<<>>}, h \in CodecGroups(a) \cup {<<>>}} :
           a \in {ASDHWith(10, COT_REQ, FALSE), ASDHWith(62, COT_U_TI, TRUE)}}

(***************************************************************************)
(* tokio::sync::broadcast, seen from its receivers: each receiver has the  *)
(* values it has not read yet (at most the capacity) and whether values    *)
(* were overwritten before it read them (recv then returns Lagged once).   *)
(***************************************************************************)
\* broadcast::Sender::send of one value to the receivers in the domain of q.
BcastSend(q, lag, v) ==
    [q |-> [s \in DOMAIN q |->
              IF Len(q[s]) >= ChanCapacity THEN Append(Tail(q[s]), v)
              ELSE Append(q[s], v)],
     lag |-> [s \in DOMAIN q |-> lag[s] \/ Len(q[s]) >= ChanCapacity]]

RECURSIVE BcastSendAll(_, _, _)
BcastSendAll(q, lag, vs) ==
    IF vs = <<>> THEN [q |-> q, lag |-> lag]
    ELSE LET r == BcastSend(q, lag, Head(vs))
         IN BcastSendAll(r.q, r.lag, Tail(vs))

(***************************************************************************)
(* Node store: database/node_table.rs.  A table is a function from the     *)
(* addresses to a record or None (no entry).                               *)
(***************************************************************************)
\* The 6-byte addresses, as numbers; 0 is [0; 6], NodeAddress::default().
NodeAddrs == {1, 2, 3}
AllAddrs == {0} \cup NodeAddrs

\* NodeRecord::default()
DefaultRecord == [address |-> 0, device_status |-> Nil, device_descriptor |-> Nil]
\* A record as the model loader makes it (sol/loader.rs).
FreshRecord(a) == [DefaultRecord EXCEPT !.address = a]

EmptyTable == [a \in AllAddrs |-> Nil]

\* The closures PersistProcess::run passes to modify.
\* Option::unwrap_or_default on an Option<NodeRecord>
UnwrapOrDefault(opt_rec) == IF opt_rec = Nil THEN DefaultRecord ELSE opt_rec[1]
CbStatus(x, opt_rec) == [UnwrapOrDefault(opt_rec) EXCEPT !.device_status = Some(x)]
CbDescriptor(x, opt_rec) == [UnwrapOrDefault(opt_rec) EXCEPT !.device_descriptor = Some(x)]

\* NodeTable::modify with a callback that returned Some(rec): the table and
\* the event sent after the commit.
ModifyWith(table, address, rec) ==
    [table |-> [table EXCEPT ![address] = Some(rec)],
     events |-> << [kind |-> IF table[address] = Nil THEN "NodeAdded" ELSE "NodeModified",
                    rec |-> rec] >>]

\* NodeTable::list / Database::list_nodes: the keys in key order.
RECURSIVE SortedKeys(_)
SortedKeys(S) ==
    IF S = {} THEN <<>>
    ELSE LET m == CHOOSE x \in S : \A y \in S : x <= y
         IN <<m>> \o SortedKeys(S \ {m})
ListNodes(table) == SortedKeys({a \in AllAddrs : table[a] # Nil})
\* Database::load_nodes over list_nodes
LoadNodes(table) == [i \in 1..Len(ListNodes(table)) |-> table[ListNodes(table)[i]][1]]


(***************************************************************************)
(* Wire constants of the gateway protocol.  The magics are kept by name:   *)
(* their values come from the gateway's C header, bound at build time.     *)
(***************************************************************************)
MAGIC_MESSAGE == "MAGIC_MESSAGE"
MAGIC_RESULT == "MAGIC_RESULT"
MAGIC_SERVER_MESSAGE == "MAGIC_SERVER_MESSAGE"
\* A magic that is none of the above.
MAGIC_OTHER == "other"
Magics == {MAGIC_RESULT, MAGIC_SERVER_MESSAGE, MAGIC_OTHER}

\* Header byte C, decoded: HeaderBits::prm and HeaderBits::fc ("none" is an
\* unrecognised function code).
HdrPrm(h) == h.C.prm
HdrFc(h) == h.C.fc
CPrm(fc) == [prm |-> TRUE, fc |-> fc]
CSec(fc) == [prm |-> FALSE, fc |-> fc]

\* MessageResult.result values the gateway sends (0 is Ok, 1 NotDelivered).
ResultCodes == {0, 1}

ServerMessage(a, c, pay) ==
    [port |-> 0, header |-> [C |-> c, address |-> a], payload |-> pay]

\* The server messages the gateway may send: a device status from node 1, a
\* device descriptor from node 2, a payload that breaks off after its first
\* IOB, and a secondary-station message (not parsed).
ServerMsgs ==
    { ServerMessage(1, CPrm("PrmSendNoreply"), PktStatus),
      ServerMessage(2, CPrm("PrmSendConfirm"), PktDescriptor),
      ServerMessage(1, CPrm("PrmSendNoreply"), PktStatusThenShort),
      ServerMessage(2, CSec("SecAck"), PktStatus) }

\* More server messages: a primary message with another function code, one
\* with an unrecognised function code, secondary messages whose function
\* bits are unrecognised or those of SendConfirm, and a SendConfirm message
\* with a sequence at the last IOA.
AllServerMsgs ==
    ServerMsgs \cup
    { ServerMessage(1, CPrm("PrmLinkTest"), PktStatus),
      ServerMessage(1, CPrm("none"), PktStatus),
      ServerMessage(2, CSec("none"), PktStatus),
      ServerMessage(2, CSec("PrmSendConfirm"), PktStatus),
      ServerMessage(1, CPrm("PrmSendConfirm"), PktThenLastIoa) }

(***************************************************************************)
(* State.                                                                  *)
(***************************************************************************)
VARIABLES
    overflow_checks, \* build profile: arithmetic overflow panics (debug) or wraps
    sup_pc,          \* client_connect: "connect", "sleep_connect", "running",
                     \*   "backoff"; "aborted" once the daemon has panicked
    join_err,        \* the error try_join_all returned, NoErr if none
    sock,            \* TcpStream of the session: "closed", "open", "wr_failed"
    id_gen,          \* SharedState.id_gen
    request_map,     \* SharedState.request_map: id -> Nil or Some(oneshot index)
    lock,            \* holder of ClientConnection.lock, None if free
    wlock,           \* holder of guarded_writer, None if free
    n_sent,          \* frames begun in this session (allocation index)
    oneshot,         \* the oneshot channels registered in request_map
    snd,             \* per sender: progress inside send_message
    wire,            \* chunks written to the socket in this session
    answered,        \* frames the gateway has answered
    d_pc,            \* dispatcher: what it reads next
    d_buf,           \* dispatcher: frame data read so far
    iob_q,           \* iob_broadcast: per receiver, values not read yet
    iob_lag,         \* iob_broadcast: per receiver, values were overwritten
    nodes,           \* the node table
    n_pc,            \* NodeScanProcess position
    n_todo,          \* NodeScan: records of the snapshot still to scan
    n_node,          \* NodeScan: the record being scanned
    p_pc,            \* PersistProcess position
    cl,              \* other callers of send_message (mux harness)
    emitted,         \* what the last step logged, read, published and sent
    txn,             \* node table: the open write transaction, Nil if none
    op_res,          \* node table: the call in progress or last returned
    rc,              \* main: progress of the reconciliation with the model
    cx,              \* codec harness: a packet and the scanner or the IOB
                     \*   iterator working on it
    fw,              \* FWUProcess: position, the fwu_state table, the messages
                     \*   passed to send_prm
    img,             \* image harness: a container, the payload presented and
                     \*   what verify returned
    frm,             \* frame harness: a message passed to send_message and
                     \*   the frame written for it
    ns_old           \* history: while scan waits, how many IOBs at the head of
                     \*   NodeScan's subscription were broadcast before the
                     \*   request's frame was written

supVars == <<sup_pc, join_err, sock>>
connVars == <<id_gen, request_map, lock, wlock, n_sent, oneshot, snd, wire, answered>>
dispVars == <<d_pc, d_buf>>
chanVars == <<iob_q, iob_lag>>
scanVars == <<n_pc, n_todo, n_node, ns_old>>
storeVars == <<txn, op_res, rc>>
vars == <<overflow_checks, sup_pc, join_err, sock, id_gen, request_map, lock,
          wlock, n_sent, oneshot, snd, wire, answered, d_pc, d_buf, iob_q,
          iob_lag, nodes, n_pc, n_todo, n_node, ns_old, p_pc, cl, emitted, txn,
          op_res, rc, cx, fw, img, frm>>
harnessVars == <<cx, fw, img, frm>>

Ids == 0..(IdModulus - 1)
Seqs == 0..(MaxSends - 1)
Clients == {"c1", "c2"}
Senders == {"ns", "fw"} \cup Clients

NoErr == [proc |-> None, kind |-> None]
Err(proc, kind) == [proc |-> proc, kind |-> kind]

\* log: the warning the step logged; magic: the magic the dispatcher read
\* (None: no magic read); reads: the read_exact calls on the socket that returned;
\* iobs, msgs: values sent on iob_broadcast and broadcast; events: events
\* sent by the node table; taken: the value NodeScan took from its receiver.
Quiet == [log |-> None, magic |-> None, reads |-> 0, iobs |-> <<>>, msgs |-> <<>>,
          events |-> <<>>, taken |-> Nil]
Logged(l) == [Quiet EXCEPT !.log = l]

UnusedOneshot == [st |-> "unused", v |-> 0, for |-> -1]
IdleSender == [pc |-> "idle", seq |-> 0, id |-> 0]
IdleClient == [pc |-> "idle", seq |-> 0]
\* No call of the node table made yet.
NoCall == [by |-> None, call |-> [op |-> None], res |-> None]
\* No packet under the codec harness.
CodecIdle ==
    [mode |-> None, input |-> <<>>, pkt |-> <<>>, sc |-> ScannerNew,
     it |-> IntoIobIter(ScannerNew), toks |-> <<>>, iobs |-> <<>>, res |-> None,
     extra |-> 0]

\* Container::default() and no payload: the magics are in place, the header
\* is zeroed, header_crc is 0.
ImgIdle ==
    [c |-> [magic1 |-> "FEEDBEEF", header |-> [payload_size |-> 0, payload_crc |-> 0],
            header_crc |-> 0, magic2 |-> "DEADBEEF"],
     payload |-> Nil, res |-> None, flipped |-> FALSE]

\* No message passed to send_message yet.
FrameIdle == [msg |-> Nil, written |-> Nil]

\* FWUProcess::new with an empty fwu_state table; n counts the events
\* received, last is the event and the goal found for it.
FwuIdle ==
    [pc |-> "recv", goals |-> [a \in NodeAddrs |-> Nil], sent |-> <<>>, n |-> 0,
     last |-> Nil]

\* main after the reconciliation (or with NodeModelSource::None).
Reconciled ==
    [pc |-> "done", model |-> <<>>, nodes |-> <<>>, pass |-> 0, clean |-> FALSE]

\* ClientConnection::new, ClientConnectionSender::new,
\* ClientConnectionDispatcher::new on a fresh stream.
FreshConn(subs) ==
    /\ id_gen' = 0
    /\ request_map' = [i \in Ids |-> Nil]
    /\ lock' = None
    /\ wlock' = None
    /\ n_sent' = 0
    /\ oneshot' = [k \in Seqs |-> UnusedOneshot]
    /\ snd' = [p \in Senders |-> IdleSender]
    /\ wire' = <<>>
    /\ answered' = {}
    /\ d_pc' = "magic"
    /\ d_buf' = Nil
    /\ iob_q' = [s \in subs |-> <<>>]
    /\ iob_lag' = [s \in subs |-> FALSE]

\* The stores the daemon may start with.
InitStores ==
    { [a \in AllAddrs |-> IF a \in K THEN Some(FreshRecord(a)) ELSE Nil] :
        K \in {{}, {1, 2}} }

InitCommon ==
    /\ overflow_checks \in BOOLEAN
    /\ join_err = NoErr
    /\ id_gen = 0
    /\ request_map = [i \in Ids |-> Nil]
    /\ lock = None
    /\ wlock = None
    /\ n_sent = 0
    /\ oneshot = [k \in Seqs |-> UnusedOneshot]
    /\ snd = [p \in Senders |-> IdleSender]
    /\ wire = <<>>
    /\ answered = {}
    /\ d_pc = "magic"
    /\ d_buf = Nil
    /\ n_pc = "init"
    /\ n_todo = <<>>
    /\ n_node = DefaultRecord
    /\ ns_old = 0
    /\ p_pc = "recv"
    /\ cl = [c \in Clients |-> IdleClient]
    /\ emitted = Quiet
    /\ txn = Nil
    /\ op_res = NoCall

\* main, up to the call of client_connect.
Init ==
    /\ InitCommon
    /\ sup_pc = "connect"
    /\ sock = "closed"
    /\ iob_q = [s \in {} |-> <<>>]
    /\ iob_lag = [s \in {} |-> FALSE]
    /\ nodes \in InitStores
    /\ rc = Reconciled
    /\ cx = CodecIdle
    /\ fw = FwuIdle
    /\ img = ImgIdle
    /\ frm = FrameIdle


(***************************************************************************)
(* Supervisor: client_connect (main.rs).                                   *)
(***************************************************************************)
Running == sup_pc = "running"

\* A panic: the futures run on the main task, the process dies.
Abort ==
    /\ sup_pc' = "aborted"
    /\ emitted' = Logged("panic")
    /\ UNCHANGED <<overflow_checks, harnessVars, storeVars, join_err, sock, connVars, dispVars, chanVars,
                   nodes, scanVars, p_pc, cl>>

\* Variant of TryJoinAllErr: a join that waits for every future (join_all)
\* instead of returning at the first Err.
TryJoinAllErr_waitAll(e) ==
    /\ join_err' = e
    /\ sup_pc' = sup_pc

\* try_join_all(futures).await when a future returns Err(e): it returns e at
\* once, the other futures are not polled again; the supervisor logs and
\* starts the back-off sleep.
TryJoinAllErr(e) ==
    /\ join_err' = e
    /\ sup_pc' = "backoff"

\* A process of the session returns Err(e); em is what it emitted on the way.
Fail(e, em) ==
    /\ TryJoinAllErr(e)
    /\ emitted' = em

ConnectOk ==
    /\ sup_pc = "connect"
    /\ sup_pc' = "running"
    /\ sock' = "open"
    /\ FreshConn({"ns", "ps"})
    /\ n_pc' = "init"
    /\ n_todo' = <<>>
    /\ n_node' = DefaultRecord
    /\ ns_old' = 0
    /\ p_pc' = "recv"
    /\ emitted' = Quiet
    /\ UNCHANGED <<overflow_checks, harnessVars, storeVars, join_err, nodes, cl>>

ConnectFail ==
    /\ sup_pc = "connect"
    /\ sup_pc' = "sleep_connect"
    /\ emitted' = Quiet
    /\ UNCHANGED <<overflow_checks, harnessVars, storeVars, join_err, sock, connVars, dispVars, chanVars,
                   nodes, scanVars, p_pc, cl>>

\* sleep(t_reconnect) after a failed connect is over: continue.
SleepConnectDone ==
    /\ sup_pc = "sleep_connect"
    /\ sup_pc' = "connect"
    /\ emitted' = Quiet
    /\ UNCHANGED <<overflow_checks, harnessVars, storeVars, join_err, sock, connVars, dispVars, chanVars,
                   nodes, scanVars, p_pc, cl>>

\* sleep(t_reconnect) after a session is over: the loop body ends, the
\* stream, the connection, the processes and the results are dropped, the
\* loop starts again.
BackoffElapsed ==
    /\ sup_pc = "backoff"
    /\ sup_pc' = "connect"
    /\ sock' = "closed"
    /\ join_err' = NoErr
    /\ FreshConn({})
    /\ n_pc' = "init"
    /\ n_todo' = <<>>
    /\ n_node' = DefaultRecord
    /\ ns_old' = 0
    /\ p_pc' = "recv"
    /\ emitted' = Quiet
    /\ UNCHANGED <<overflow_checks, harnessVars, storeVars, nodes, cl>>

(***************************************************************************)
(* ClientConnectionSender::send_message, for a sender p.                   *)
(***************************************************************************)
\* `ss.id_gen += 1` overflows and the build checks overflows.
SendPanics == overflow_checks /\ id_gen + 1 >= IdModulus

\* Variant of SendReserve: the id is reserved without holding conn.lock and
\* the writer across the writes.
SendReserve_unlocked(p) ==
    /\ snd[p].pc = "idle"
    /\ lock' = lock
    /\ wlock' = wlock
    /\ snd' = [snd EXCEPT ![p] = [pc |-> "w_magic", seq |-> n_sent, id |-> id_gen]]
    /\ id_gen' = (id_gen + 1) % IdModulus
    /\ n_sent' = n_sent + 1
    /\ UNCHANGED <<request_map, oneshot, wire, answered>>

\* Up to the first write: take conn.lock, reserve the id, take the writer.
SendReserve(p) ==
    /\ lock = None
    /\ wlock = None
    /\ lock' = p
    /\ wlock' = p
    /\ snd' = [snd EXCEPT ![p] = [pc |-> "w_magic", seq |-> n_sent, id |-> id_gen]]
    /\ id_gen' = (id_gen + 1) % IdModulus
    /\ n_sent' = n_sent + 1
    /\ UNCHANGED <<request_map, oneshot, wire, answered>>

\* What one write_all puts on the wire: a part ("magic" is MAGIC_MESSAGE,
\* "header" the Message struct with the id, "payload" the payload) of the
\* frame seq.
Chunk(p, part) == [seq |-> snd[p].seq, part |-> part, id |-> snd[p].id]

\* The part a write_all puts on the wire and the position after it.
PartOf(pc) ==
    CASE pc = "w_magic" -> "magic" [] pc = "w_header" -> "header"
      [] pc = "w_payload" -> "payload"
AfterWrite(pc) ==
    CASE pc = "w_magic" -> "w_header" [] pc = "w_header" -> "w_payload"
      [] pc = "w_payload" -> "insert"

\* Variant of SendWrite: conn.lock is released once the payload is written,
\* before the waiter is registered.
SendWrite_releaseEarly(p) ==
    /\ snd[p].pc \in {"w_magic", "w_header", "w_payload"}
    /\ sock = "open"
    /\ wire' = Append(wire, Chunk(p, PartOf(snd[p].pc)))
    /\ snd' = [snd EXCEPT ![p].pc = AfterWrite(snd[p].pc)]
    /\ lock' = IF snd[p].pc = "w_payload" THEN None ELSE lock
    /\ UNCHANGED <<id_gen, request_map, wlock, n_sent, oneshot, answered>>

\* write_all of the magic, of the header, of the payload: conn.lock and the
\* writer stay held.
SendWrite(p) ==
    /\ snd[p].pc \in {"w_magic", "w_header", "w_payload"}
    /\ sock = "open"
    /\ wire' = Append(wire, Chunk(p, PartOf(snd[p].pc)))
    /\ snd' = [snd EXCEPT ![p].pc = AfterWrite(snd[p].pc)]
    /\ UNCHANGED <<id_gen, request_map, lock, wlock, n_sent, oneshot, answered>>

\* The oneshot channels after request_map.insert(id, sender) for frame seq:
\* a sender the insert replaces is dropped.  rx_kept: the caller keeps the
\* receiver it gets back.
Registered(seq, id, rx_kept) ==
    [k \in Seqs |->
        IF k = seq THEN [UnusedOneshot EXCEPT !.st = IF rx_kept THEN "open" ELSE "rx_dropped"]
        ELSE IF request_map[id] = Some(k) /\ oneshot[k].st = "open"
             THEN [oneshot[k] EXCEPT !.st = "tx_dropped"]
        ELSE oneshot[k]]

\* The oneshot channels after the receiver of frame seq has returned and is
\* dropped.
Received(seq) == [oneshot EXCEPT ![seq] = [UnusedOneshot EXCEPT !.st = "done"]]

\* After the writes: the writer is released, the waiter registered,
\* conn.lock released, Ok(receiver) returned.
SendFinish(p, rx_kept) ==
    /\ snd[p].pc = "insert"
    /\ wire' = wire
    /\ request_map' = [request_map EXCEPT ![snd[p].id] = Some(snd[p].seq)]
    /\ oneshot' = Registered(snd[p].seq, snd[p].id, rx_kept)
    /\ snd' = [snd EXCEPT ![p].pc = "idle"]
    /\ lock' = None
    /\ wlock' = None
    /\ UNCHANGED <<id_gen, n_sent, answered>>

\* A write_all fails: the guards are dropped, the error is returned.
SendFail(p) ==
    /\ snd[p].pc \in {"w_magic", "w_header", "w_payload"}
    /\ sock \in {"open", "wr_failed"}
    /\ sock' = "wr_failed"
    /\ snd' = [snd EXCEPT ![p].pc = "idle"]
    /\ lock' = None
    /\ wlock' = None
    /\ UNCHANGED <<id_gen, request_map, n_sent, oneshot, wire, answered>>


(***************************************************************************)
(* ClientConnectionDispatcher (client_connection.rs).  The gateway is the  *)
(* environment: it chooses what the dispatcher reads.                      *)
(***************************************************************************)
\* Frames whose last chunk is on the wire, and the id a frame carries.
FramesWritten == {wire[j].seq : j \in {i \in 1..Len(wire) : wire[i].part = "payload"}}
FrameId(k) == wire[CHOOSE j \in 1..Len(wire) : wire[j].seq = k].id

\* The frames the gateway has answered once it has sent the result r.
Answered(r) == IF r.for = -1 THEN answered ELSE answered \cup {r.for}

\* Variant of HandleResult: the entry is looked up (get) and left in
\* request_map instead of removed.
HandleResult_keepEntry(r, reads) ==
    LET e == request_map[r.msg_id] IN
    IF e = Nil
    THEN /\ emitted' = [Quiet EXCEPT !.log = "No request_map entry", !.reads = reads,
                                     !.magic = IF reads = 0 THEN None ELSE MAGIC_RESULT]
         /\ d_pc' = "magic"
         /\ d_buf' = Nil
         /\ answered' = Answered(r)
         /\ UNCHANGED <<overflow_checks, harnessVars, storeVars, supVars, id_gen, request_map, lock, wlock,
                        n_sent, oneshot, snd, wire, chanVars, nodes, scanVars, p_pc,
                        cl>>
    ELSE IF oneshot[e[1]].st = "rx_dropped"
    THEN Abort
    ELSE /\ oneshot' = [oneshot EXCEPT ![e[1]] = [st |-> "sent", v |-> r.result,
                                                  for |-> r.for]]
         /\ emitted' = [Quiet EXCEPT !.reads = reads,
                                     !.magic = IF reads = 0 THEN None ELSE MAGIC_RESULT]
         /\ d_pc' = "magic"
         /\ d_buf' = Nil
         /\ answered' = Answered(r)
         /\ UNCHANGED <<overflow_checks, harnessVars, storeVars, supVars, id_gen, request_map, lock, wlock,
                        n_sent, snd, wire, chanVars, nodes, scanVars, p_pc, cl>>

\* dispatch_result once it holds conn.lock, for the MessageResult r; reads
\* is the number of read_exact calls of the step.
HandleResult(r, reads) ==
    LET e == request_map[r.msg_id] IN
    IF e = Nil
    THEN /\ emitted' = [Quiet EXCEPT !.log = "No request_map entry", !.reads = reads,
                                     !.magic = IF reads = 0 THEN None ELSE MAGIC_RESULT]
         /\ d_pc' = "magic"
         /\ d_buf' = Nil
         /\ answered' = Answered(r)
         /\ UNCHANGED <<overflow_checks, harnessVars, storeVars, supVars, id_gen, request_map, lock, wlock,
                        n_sent, oneshot, snd, wire, chanVars, nodes, scanVars, p_pc,
                        cl>>
    ELSE IF oneshot[e[1]].st = "rx_dropped"
    THEN \* sender.send(..) is Err, unwrap() panics
         Abort
    ELSE /\ request_map' = [request_map EXCEPT ![r.msg_id] = Nil]
         /\ oneshot' = [oneshot EXCEPT ![e[1]] = [st |-> "sent", v |-> r.result,
                                                  for |-> r.for]]
         /\ emitted' = [Quiet EXCEPT !.reads = reads,
                                     !.magic = IF reads = 0 THEN None ELSE MAGIC_RESULT]
         /\ d_pc' = "magic"
         /\ d_buf' = Nil
         /\ answered' = Answered(r)
         /\ UNCHANGED <<overflow_checks, harnessVars, storeVars, supVars, id_gen, lock, wlock, n_sent, snd,
                        wire, chanVars, nodes, scanVars, p_pc, cl>>

\* dispatch reads MAGIC_RESULT, dispatch_result reads the MessageResult and
\* asks for conn.lock.  `for` is the frame the gateway answers with it, -1
\* if it answers none (a repeated or unsolicited result).
DispatchResult ==
    /\ Running
    /\ d_pc = "magic"
    /\ \E i \in Ids, res \in ResultCodes, f \in {-1} \cup (FramesWritten \ answered) :
         /\ f # -1 => FrameId(f) = i
         /\ LET r == [msg_id |-> i, result |-> res, for |-> f] IN
            IF lock = None
            THEN HandleResult(r, 2)
            ELSE /\ d_pc' = "result_lock"
                 /\ d_buf' = Some(r)
                 /\ answered' = Answered(r)
                 /\ emitted' = [Quiet EXCEPT !.reads = 2, !.magic = MAGIC_RESULT]
                 /\ UNCHANGED <<overflow_checks, harnessVars, storeVars, supVars, id_gen, request_map, lock,
                                wlock, n_sent, oneshot, snd, wire, chanVars, nodes,
                                scanVars, p_pc, cl>>

\* dispatch_result: conn.lock.lock().await returns.
DResultLocked ==
    /\ Running
    /\ d_pc = "result_lock"
    /\ lock = None
    /\ HandleResult(d_buf[1], 0)

\* The `for item in Scanner::new(..).into_iob_iter()` loop: the IOBs sent
\* until the iterator ends, yields an Err or panics.
RECURSIVE IobLoop(_, _, _, _)
IobLoop(it, pkt, checked, acc) ==
    LET r == IobNext(it, pkt, checked) IN
    IF r.res = "ok" THEN IobLoop(r.it, pkt, checked, Append(acc, r.iob))
    ELSE [iobs |-> acc, end |-> r.res]

\* Variant of ParsedIobs: a payload whose parse ends in an error publishes
\* nothing.
ParsedIobs_allOrNothing(m, checked) ==
    IF HdrPrm(m.header) /\ HdrFc(m.header) \in {"PrmSendConfirm", "PrmSendNoreply"}
    THEN LET r == IobLoop(IntoIobIter(ScannerNew), m.payload, checked, <<>>)
         IN IF r.end = "err" THEN [iobs |-> <<>>, end |-> "err"] ELSE r
    ELSE [iobs |-> <<>>, end |-> "skipped"]

\* The IOBs dispatch_server_message publishes for the message m.
ParsedIobs(m, checked) ==
    IF HdrPrm(m.header) /\ HdrFc(m.header) \in {"PrmSendConfirm", "PrmSendNoreply"}
    THEN IobLoop(IntoIobIter(ScannerNew), m.payload, checked, <<>>)
    ELSE [iobs |-> <<>>, end |-> "skipped"]

\* ParsedIobs, tabulated over the messages of the model.
ParsedTable == [m \in AllServerMsgs |-> [c \in BOOLEAN |-> ParsedIobs(m, c)]]

MessageHeaderFrom(m) == [port |-> m.port, header |-> m.header]
IOBMessage(m, iob) == [message |-> MessageHeaderFrom(m), iob |-> iob]

\* dispatch_server_message for the message m read from the socket: the IOB
\* loop sends on iob_broadcast, then the message is sent on broadcast.  A
\* panic in the loop ends the session after the IOBs already sent.
ServerMessageStep(m) ==
    LET p == ParsedTable[m][overflow_checks]
        out == [i \in 1..Len(p.iobs) |-> IOBMessage(m, p.iobs[i])]
        b == BcastSendAll(iob_q, iob_lag, out)
        lost == IF "ns" \in DOMAIN iob_q
                THEN Len(iob_q["ns"]) + Len(out) - Len(b.q["ns"])
                ELSE 0
    IN /\ iob_q' = b.q
       /\ iob_lag' = b.lag
       /\ ns_old' = IF ns_old > lost THEN ns_old - lost ELSE 0
       /\ IF p.end = "panic"
          THEN /\ sup_pc' = "aborted"
               /\ emitted' = [Quiet EXCEPT !.log = "panic", !.reads = 3, !.iobs = out,
                                           !.magic = MAGIC_SERVER_MESSAGE]
          ELSE /\ sup_pc' = sup_pc
               /\ emitted' = [Quiet EXCEPT !.reads = 3, !.iobs = out, !.msgs = <<m>>,
                                           !.magic = MAGIC_SERVER_MESSAGE]
       /\ UNCHANGED <<overflow_checks, harnessVars, storeVars, join_err, sock, connVars,
                      dispVars, nodes, n_pc, n_todo, n_node, p_pc, cl>>

\* dispatch reads MAGIC_SERVER_MESSAGE, dispatch_server_message reads the
\* header and the payload (m is the message), runs the IOB loop and sends
\* the message on broadcast.
DispatchServerMessage ==
    /\ Running
    /\ d_pc = "magic"
    /\ \E m \in ServerMsgs : ServerMessageStep(m)

\* The same, the gateway sending any message of AllServerMsgs.
DispatchAnyServerMessage ==
    /\ Running
    /\ d_pc = "magic"
    /\ \E m \in AllServerMsgs : ServerMessageStep(m)

\* Variant of DispatchUnsupported: the unknown magic is skipped and the loop
\* goes on.
DispatchUnsupported_skip ==
    /\ Running
    /\ d_pc = "magic"
    /\ \E m \in Magics \ {MAGIC_RESULT, MAGIC_SERVER_MESSAGE} :
         emitted' = [Quiet EXCEPT !.reads = 1, !.magic = m]
    /\ UNCHANGED <<overflow_checks, harnessVars, storeVars, supVars, connVars, dispVars, chanVars, nodes,
                   scanVars, p_pc, cl>>

\* dispatch reads a magic that is neither of the two: Err(InvalidData).
DispatchUnsupported ==
    /\ Running
    /\ d_pc = "magic"
    /\ \E m \in Magics \ {MAGIC_RESULT, MAGIC_SERVER_MESSAGE} :
         /\ d_pc' = "returned"
         /\ Fail(Err("dispatcher", "Unsupported magic"),
                 [Quiet EXCEPT !.reads = 1, !.magic = m])
    /\ UNCHANGED <<overflow_checks, harnessVars, storeVars, sock, connVars, d_buf, chanVars, nodes, scanVars,
                   p_pc, cl>>

\* A read_exact of the dispatcher fails (the gateway closed the stream, an
\* I/O error).
DReadError ==
    /\ Running
    /\ d_pc = "magic"
    /\ d_pc' = "returned"
    /\ Fail(Err("dispatcher", "io"), Quiet)
    /\ UNCHANGED <<overflow_checks, harnessVars, storeVars, sock, connVars, d_buf, chanVars, nodes, scanVars,
                   p_pc, cl>>

(***************************************************************************)
(* NodeScanProcess (ptnet_process/nodescan.rs).                            *)
(***************************************************************************)
\* NodeScanProcess::match_rsp_ti232
MatchRspTi232(rsp, node) ==
    /\ rsp.message.header.address = node.address
    /\ rsp.iob.asdh = ASDHWith(62, COT_REQ, FALSE)
    /\ rsp.iob.ioa = 1
    /\ rsp.iob.ie.ti = 232

\* The recv branch of the select! in scan: `break 'rsp_loop` if the
\* response matched, `break` otherwise; both leave 'rsp_loop.
RspLoopExit(matched) == IF matched THEN TRUE ELSE TRUE

\* scan(node) for the first record of recs, up to the first write of
\* send_message.
ScanNode(recs) ==
    /\ lock = None
    /\ wlock = None
    /\ n_sent < MaxScans
    /\ IF SendPanics
       THEN Abort
       ELSE /\ SendReserve("ns")
            /\ n_pc' = "sending"
            /\ n_node' = Head(recs)
            /\ ns_old' = 0
            /\ n_todo' = Tail(recs)
            /\ emitted' = Quiet
            /\ UNCHANGED <<overflow_checks, harnessVars, storeVars, supVars, dispVars, chanVars, nodes, p_pc,
                           cl>>

\* run: the top of the loop.  Reading the store may fail.
LoopTop ==
    \E ok \in BOOLEAN :
      IF ~ok
      THEN /\ n_pc' = "returned"
           /\ Fail(Err("NodeScan", "store"), Quiet)
           /\ UNCHANGED <<overflow_checks, harnessVars, storeVars, sock, connVars, dispVars, chanVars, nodes,
                          n_todo, n_node, ns_old, p_pc, cl>>
      ELSE IF LoadNodes(nodes) = <<>>
      THEN /\ n_pc' = "tick_empty"
           /\ emitted' = Quiet
           /\ UNCHANGED <<overflow_checks, harnessVars, storeVars, supVars, connVars, dispVars, chanVars,
                          nodes, n_todo, n_node, ns_old, p_pc, cl>>
      ELSE ScanNode(LoadNodes(nodes))

NodeScanStart == Running /\ n_pc = "init" /\ LoopTop

\* interval.tick() after a scan returns: the next record, or the loop top.
NodeScanTick ==
    /\ Running
    /\ n_pc = "tick"
    /\ IF n_todo # <<>> THEN ScanNode(n_todo) ELSE LoopTop

\* interval.tick() of the empty snapshot returns.
NodeScanTickEmpty == Running /\ n_pc = "tick_empty" /\ LoopTop

\* One write_all of send_message returns.  When the payload, the last part
\* of the frame, is written, every IOB queued in the subscription is one
\* that was broadcast before the request.
NodeScanWrite ==
    /\ Running
    /\ n_pc = "sending"
    /\ SendWrite("ns")
    /\ ns_old' = IF AfterWrite(snd["ns"].pc) = "insert" THEN Len(iob_q["ns"]) ELSE ns_old
    /\ emitted' = Quiet
    /\ UNCHANGED <<overflow_checks, harnessVars, storeVars, supVars, dispVars, chanVars, nodes,
                   n_pc, n_todo, n_node, p_pc, cl>>

NodeScanSent ==
    /\ Running
    /\ n_pc = "sending"
    /\ SendFinish("ns", TRUE)
    /\ n_pc' = "await_result"
    /\ emitted' = Quiet
    /\ UNCHANGED <<overflow_checks, harnessVars, storeVars, supVars, dispVars, chanVars, nodes, n_todo,
                   n_node, ns_old, p_pc, cl>>

NodeScanWriteErr ==
    /\ Running
    /\ n_pc = "sending"
    /\ SendFail("ns")
    /\ n_pc' = "returned"
    /\ Fail(Err("NodeScan", "io"), Quiet)
    /\ UNCHANGED <<overflow_checks, harnessVars, storeVars, dispVars, chanVars, nodes, n_todo, n_node, ns_old, p_pc,
                   cl>>

\* One poll of the recv branch of the select! in scan; os is the state of
\* the oneshot channels after it.
RspPoll(os) ==
    IF iob_lag["ns"]
    THEN /\ iob_lag' = [iob_lag EXCEPT !["ns"] = FALSE]
         /\ n_pc' = "returned"
         /\ Fail(Err("NodeScan", "Lagged"), Quiet)
         /\ oneshot' = os
         /\ UNCHANGED <<overflow_checks, harnessVars, storeVars, sock, id_gen, request_map, lock, wlock,
                        n_sent, snd, wire, answered, dispVars, iob_q, nodes, n_todo,
                        n_node, ns_old, p_pc, cl>>
    ELSE IF iob_q["ns"] # <<>>
    THEN LET rsp == Head(iob_q["ns"])
             exit == RspLoopExit(MatchRspTi232(rsp, n_node))
         IN /\ iob_q' = [iob_q EXCEPT !["ns"] = Tail(iob_q["ns"])]
            /\ n_pc' = IF exit THEN "tick" ELSE "await_rsp"
            /\ emitted' = [Quiet EXCEPT !.taken = Some(rsp)]
            /\ oneshot' = os
            /\ ns_old' = IF exit \/ ns_old = 0 THEN 0 ELSE ns_old - 1
            /\ UNCHANGED <<overflow_checks, harnessVars, storeVars, supVars, id_gen, request_map, lock,
                           wlock, n_sent, snd, wire, answered, dispVars, iob_lag,
                           nodes, n_todo, n_node, p_pc, cl>>
    ELSE /\ n_pc' = "await_rsp"
         /\ emitted' = Quiet
         /\ oneshot' = os
         /\ UNCHANGED <<overflow_checks, harnessVars, storeVars, supVars, id_gen, request_map, lock, wlock,
                        n_sent, snd, wire, answered, dispVars, chanVars, nodes,
                        n_todo, n_node, ns_old, p_pc, cl>>

\* rcvr.await returns: the result, or RecvError if the sender was dropped.
NodeScanResult ==
    /\ Running
    /\ n_pc = "await_result"
    /\ oneshot[snd["ns"].seq].st \in {"sent", "tx_dropped"}
    /\ IF oneshot[snd["ns"].seq].st = "tx_dropped"
       THEN /\ n_pc' = "returned"
            /\ Fail(Err("NodeScan", "RecvError"), Quiet)
            /\ UNCHANGED <<overflow_checks, harnessVars, storeVars, sock, connVars, dispVars, chanVars, nodes,
                           n_todo, n_node, ns_old, p_pc, cl>>
       ELSE RspPoll(Received(snd["ns"].seq))

\* message_rcvr.recv() is ready while scan waits for the response.
NodeScanRecv ==
    /\ Running
    /\ n_pc = "await_rsp"
    /\ iob_lag["ns"] \/ iob_q["ns"] # <<>>
    /\ RspPoll(oneshot)

\* Variant of NodeScanTimeout: the timeout is returned as an error.
NodeScanTimeout_err ==
    /\ Running
    /\ n_pc = "await_rsp"
    /\ n_pc' = "returned"
    /\ Fail(Err("NodeScan", "timeout"), Logged("Response timed out!"))
    /\ UNCHANGED <<overflow_checks, harnessVars, storeVars, sock, connVars, dispVars, chanVars, nodes,
                   n_todo, n_node, ns_old, p_pc, cl>>

\* The 5 s timeout of scan elapses: `return Ok(())`.
NodeScanTimeout ==
    /\ Running
    /\ n_pc = "await_rsp"
    /\ n_pc' = "tick"
    /\ ns_old' = 0
    /\ emitted' = Logged("Response timed out!")
    /\ UNCHANGED <<overflow_checks, harnessVars, storeVars, supVars, connVars, dispVars, chanVars, nodes,
                   n_todo, n_node, p_pc, cl>>


(***************************************************************************)
(* PersistProcess (ptnet_process/persist.rs).                              *)
(***************************************************************************)
\* Variant of PersistRecord: the IOA is not looked at.
PersistRecord_anyIoa(m) ==
    LET cur == nodes[m.message.header.address] IN
    IF m.iob.asdh.ca # 62 THEN Nil
    ELSE IF m.iob.ie.ti = 232 THEN Some(CbStatus(m.iob.ie.bytes, cur))
    ELSE IF m.iob.ie.ti = 233 THEN Some(CbDescriptor(m.iob.ie.bytes, cur))
    ELSE Nil

\* What the match in run stores for an IOB message: Some(record) or Nil.
PersistRecord(m) ==
    LET cur == nodes[m.message.header.address] IN
    IF m.iob.asdh.ca # 62 THEN Nil
    ELSE IF m.iob.ioa = 1 /\ m.iob.ie.ti = 232 THEN Some(CbStatus(m.iob.ie.bytes, cur))
    ELSE IF m.iob.ioa = 2 /\ m.iob.ie.ti = 233 THEN Some(CbDescriptor(m.iob.ie.bytes, cur))
    ELSE Nil

\* One round of the loop in run: iob_rcvr.recv() returns, the IOB is stored.
\* The store transaction may fail.
PersistRecv ==
    /\ Running
    /\ p_pc = "recv"
    /\ iob_lag["ps"] \/ iob_q["ps"] # <<>>
    /\ IF iob_lag["ps"]
       THEN /\ iob_lag' = [iob_lag EXCEPT !["ps"] = FALSE]
            /\ p_pc' = "returned"
            /\ Fail(Err("Persist", "Lagged"), Quiet)
            /\ UNCHANGED <<overflow_checks, harnessVars, storeVars, sock, connVars, dispVars, iob_q, nodes,
                           scanVars, cl>>
       ELSE LET m == Head(iob_q["ps"])
                rec == PersistRecord(m)
            IN /\ iob_q' = [iob_q EXCEPT !["ps"] = Tail(iob_q["ps"])]
               /\ iob_lag' = iob_lag
               /\ IF rec = Nil
                  THEN /\ emitted' = Quiet
                       /\ UNCHANGED <<supVars, nodes, p_pc>>
                  ELSE \E ok \in BOOLEAN :
                         IF ok
                         THEN LET r == ModifyWith(nodes, m.message.header.address, rec[1])
                              IN /\ nodes' = r.table
                                 /\ emitted' = [Quiet EXCEPT !.events = r.events]
                                 /\ UNCHANGED <<supVars, p_pc>>
                         ELSE /\ p_pc' = "returned"
                              /\ Fail(Err("Persist", "store"), Quiet)
                              /\ UNCHANGED <<sock, nodes>>
               /\ UNCHANGED <<overflow_checks, harnessVars, storeVars, connVars, dispVars, scanVars, cl>>

(***************************************************************************)
(* Other callers of send_message on the same connection (the FWU process   *)
(* is one: fwu.rs), for the checks of the multiplexer.                     *)
(***************************************************************************)
ClientSend(c) ==
    /\ Running
    /\ cl[c].pc = "idle"
    /\ lock = None
    /\ wlock = None
    /\ n_sent < MaxSends
    /\ IF SendPanics
       THEN Abort
       ELSE /\ SendReserve(c)
            /\ cl' = [cl EXCEPT ![c] = [pc |-> "sending", seq |-> n_sent]]
            /\ emitted' = Quiet
            /\ UNCHANGED <<overflow_checks, harnessVars, storeVars, supVars, dispVars, chanVars, nodes,
                           scanVars, p_pc>>

ClientWrite(c) ==
    /\ Running
    /\ cl[c].pc = "sending"
    /\ SendWrite(c)
    /\ emitted' = Quiet
    /\ UNCHANGED <<overflow_checks, harnessVars, storeVars, supVars, dispVars, chanVars, nodes, scanVars,
                   p_pc, cl>>

\* send_message returns Ok(receiver): the caller awaits the receiver or
\* drops it.
ClientSent(c) ==
    /\ Running
    /\ cl[c].pc = "sending"
    /\ \E keep \in BOOLEAN :
         /\ SendFinish(c, keep)
         /\ cl' = [cl EXCEPT ![c].pc = IF keep THEN "await" ELSE "idle"]
    /\ emitted' = Quiet
    /\ UNCHANGED <<overflow_checks, harnessVars, storeVars, supVars, dispVars, chanVars, nodes, scanVars,
                   p_pc>>

\* send_message returns Err: the caller logs it.
ClientWriteErr(c) ==
    /\ Running
    /\ cl[c].pc = "sending"
    /\ SendFail(c)
    /\ cl' = [cl EXCEPT ![c].pc = "idle"]
    /\ emitted' = Quiet
    /\ UNCHANGED <<overflow_checks, harnessVars, storeVars, sup_pc, join_err, dispVars, chanVars, nodes,
                   scanVars, p_pc>>

\* receiver.await returns (the result, or RecvError).
ClientResult(c) ==
    /\ Running
    /\ cl[c].pc = "await"
    /\ oneshot[cl[c].seq].st \in {"sent", "tx_dropped"}
    /\ cl' = [cl EXCEPT ![c].pc = "idle"]
    /\ oneshot' = Received(cl[c].seq)
    /\ emitted' = Quiet
    /\ UNCHANGED <<overflow_checks, harnessVars, storeVars, supVars, id_gen, request_map, lock, wlock, n_sent,
                   snd, wire, answered, dispVars, chanVars, nodes, scanVars, p_pc>>

(***************************************************************************)
(* Specifications.                                                         *)
(***************************************************************************)
\* The daemon as main builds it: dispatcher, NodeScan and Persist under the
\* supervisor.
Next ==
    \/ ConnectOk
    \/ ConnectFail
    \/ SleepConnectDone
    \/ BackoffElapsed
    \/ DispatchResult
    \/ DResultLocked
    \/ DispatchServerMessage
    \/ DispatchUnsupported
    \/ DReadError
    \/ NodeScanStart
    \/ NodeScanTick
    \/ NodeScanTickEmpty
    \/ NodeScanWrite
    \/ NodeScanSent
    \/ NodeScanWriteErr
    \/ NodeScanResult
    \/ NodeScanRecv
    \/ NodeScanTimeout
    \/ PersistRecv

Spec == Init /\ [][Next]_vars

\* The timers of the supervisor elapse and a connect attempt returns.
FairSpec ==
    /\ Spec
    /\ WF_vars(BackoffElapsed)
    /\ WF_vars(SleepConnectDone)
    /\ WF_vars(ConnectOk \/ ConnectFail)

\* The futures of scan are polled when they are ready: the 5 s timer
\* elapses, a ready oneshot or subscription is taken, a socket write goes
\* through.  Nothing obliges the gateway to send anything.
FairScan ==
    /\ Spec
    /\ WF_vars(NodeScanWrite)
    /\ WF_vars(NodeScanSent)
    /\ WF_vars(NodeScanResult)
    /\ WF_vars(NodeScanRecv)
    /\ WF_vars(NodeScanTimeout)

\* One session of the multiplexer with several callers of send_message.
MuxInit ==
    /\ InitCommon
    /\ sup_pc = "running"
    /\ sock = "open"
    /\ iob_q = [s \in {} |-> <<>>]
    /\ iob_lag = [s \in {} |-> FALSE]
    /\ nodes = EmptyTable
    /\ rc = Reconciled
    /\ cx = CodecIdle
    /\ fw = FwuIdle
    /\ img = ImgIdle
    /\ frm = FrameIdle

MuxNext ==
    \/ DispatchResult
    \/ DResultLocked
    \/ DispatchServerMessage
    \/ DispatchUnsupported
    \/ DReadError
    \/ \E c \in Clients : ClientSend(c)
    \/ \E c \in Clients : ClientWrite(c)
    \/ \E c \in Clients : ClientSent(c)
    \/ \E c \in Clients : ClientWriteErr(c)
    \/ \E c \in Clients : ClientResult(c)

SpecMux == MuxInit /\ [][MuxNext]_vars

\* The same session, the gateway sending any message of AllServerMsgs.
DispatchNext ==
    \/ DispatchResult
    \/ DResultLocked
    \/ DispatchAnyServerMessage
    \/ DispatchUnsupported
    \/ DReadError
    \/ \E c \in Clients : ClientSend(c)
    \/ \E c \in Clients : ClientWrite(c)
    \/ \E c \in Clients : ClientSent(c)
    \/ \E c \in Clients : ClientWriteErr(c)
    \/ \E c \in Clients : ClientResult(c)

SpecDispatch == MuxInit /\ [][DispatchNext]_vars


(***************************************************************************)
(* The node table's operations (database/node_table.rs).  Each runs in one *)
(* redb write transaction: the body works on the transaction's table, the  *)
(* commit makes it the stored table, and a transaction dropped without a   *)
(* commit leaves the stored table as it was.                               *)
(***************************************************************************)
UpdateModes == {"UpdateOrCreate", "MustCreate", "MustExist"}

\* Variant of ModeError: the mode is not looked at.
ModeError_noCheck(table, key, mode) == None

\* The `match mode` of update and update_many: the io::ErrorKind returned,
\* None if the record may be written.
ModeError(table, key, mode) ==
    IF mode = "MustCreate" /\ table[key] # Nil THEN "AlreadyExists"
    ELSE IF mode = "MustExist" /\ table[key] = Nil THEN "NotFound"
    ELSE None

\* Variant of MkEvent: the two kinds the other way round.
MkEvent_swapped(prev, rec) ==
    [kind |-> IF prev = Nil THEN "NodeModified" ELSE "NodeAdded", rec |-> rec]

\* Event::NodeAdded / Event::NodeModified from what table.insert returned.
MkEvent(prev, rec) ==
    [kind |-> IF prev = Nil THEN "NodeAdded" ELSE "NodeModified", rec |-> rec]

\* What the body of an operation leaves when it reaches (or misses) its
\* commit: res is the error it returned early with, "Ok" for an early
\* Ok(()), None when it goes on to commit; events is the Vec of events in
\* the order they were made.
EarlyReturn(res, table) == [res |-> res, table |-> table, events |-> <<>>]
ToCommit(table, events) == [res |-> None, table |-> table, events |-> events]

\* NodeTable::update up to the commit.
UpdateBody(table, address, rec, mode) ==
    IF ModeError(table, address, mode) # None
    THEN EarlyReturn(ModeError(table, address, mode), table)
    ELSE ToCommit([table EXCEPT ![address] = Some(rec)],
                  << MkEvent(table[address], rec) >>)

\* Variant of UpdateManyBody: a record that fails its mode is skipped and
\* the records around it are written.
RECURSIVE UpdateManyBody_skipFailed(_, _, _, _)
UpdateManyBody_skipFailed(table, recs, mode, events) ==
    IF recs = <<>> THEN ToCommit(table, events)
    ELSE LET rec == Head(recs) IN
         IF ModeError(table, rec.address, mode) # None
         THEN UpdateManyBody_skipFailed(table, Tail(recs), mode, events)
         ELSE UpdateManyBody_skipFailed([table EXCEPT ![rec.address] = Some(rec)],
                                        Tail(recs), mode,
                                        Append(events, MkEvent(table[rec.address], rec)))

\* NodeTable::update_many up to the commit: the `for rec in it` loop.
RECURSIVE UpdateManyBody(_, _, _, _)
UpdateManyBody(table, recs, mode, events) ==
    IF recs = <<>> THEN ToCommit(table, events)
    ELSE LET rec == Head(recs) IN
         IF ModeError(table, rec.address, mode) # None
         THEN EarlyReturn(ModeError(table, rec.address, mode), table)
         ELSE UpdateManyBody([table EXCEPT ![rec.address] = Some(rec)],
                             Tail(recs), mode,
                             Append(events, MkEvent(table[rec.address], rec)))

\* NodeTable::modify up to the commit; out is what the callback returned.
ModifyBody(table, address, out) ==
    IF out = Nil THEN EarlyReturn("Ok", table)
    ELSE ToCommit(ModifyWith(table, address, out[1]).table,
                  ModifyWith(table, address, out[1]).events)

\* NodeTable::remove_many up to the commit.
RECURSIVE RemoveManyBody(_, _)
RemoveManyBody(table, keys) ==
    IF keys = <<>> THEN ToCommit(table, <<>>)
    ELSE RemoveManyBody([table EXCEPT ![Head(keys)] = Nil], Tail(keys))

\* NodeTable::load_many: [res, recs].
RECURSIVE LoadMany(_, _, _)
LoadMany(table, keys, results) ==
    IF keys = <<>> THEN [res |-> "Ok", recs |-> results]
    ELSE IF table[Head(keys)] = Nil THEN [res |-> "NotFound", recs |-> <<>>]
    ELSE LoadMany(table, Tail(keys), Append(results, table[Head(keys)][1]))

\* The order in which `while let Some(evt) = events.pop()` sends a Vec.
RECURSIVE PopOrder(_)
PopOrder(events) ==
    IF events = <<>> THEN <<>>
    ELSE << events[Len(events)] >> \o PopOrder(SubSeq(events, 1, Len(events) - 1))

\* The body of a call, by operation.
Body(table, call) ==
    CASE call.op = "update" -> UpdateBody(table, call.key, call.rec, call.mode)
      [] call.op = "update_many" -> UpdateManyBody(table, call.recs, call.mode, <<>>)
      [] call.op = "modify" -> ModifyBody(table, call.key, call.out)
      [] call.op = "remove_many" -> RemoveManyBody(table, call.keys)


\* Everything of the daemon that the node table's operations leave alone.
daemonVars == <<overflow_checks, harnessVars, supVars, connVars, dispVars, chanVars, scanVars,
                p_pc, cl>>

\* Variant of StoreCall: the events are sent as soon as the records are
\* written into the transaction's table, before the commit.
StoreCall_sendEarly(by, call) ==
    /\ txn = Nil
    /\ LET b == Body(nodes, call) IN
       IF b.res = None
       THEN /\ txn' = Some([table |-> b.table, events |-> <<>>, committed |-> FALSE])
            /\ op_res' = [by |-> by, call |-> call, res |-> "pending"]
            /\ emitted' = [Quiet EXCEPT !.events = PopOrder(b.events)]
       ELSE /\ txn' = Nil
            /\ op_res' = [by |-> by, call |-> call, res |-> b.res]
            /\ emitted' = Quiet
    /\ UNCHANGED <<nodes, daemonVars>>

\* A call of update, update_many, modify or remove_many, from begin_write
\* to the point before txn.commit(): either the body has returned early
\* (the transaction is dropped) or the transaction holds the written table
\* and the events to send.
StoreCall(by, call) ==
    /\ txn = Nil
    /\ LET b == Body(nodes, call) IN
       IF b.res = None
       THEN /\ txn' = Some([table |-> b.table, events |-> b.events, committed |-> FALSE])
            /\ op_res' = [by |-> by, call |-> call, res |-> "pending"]
       ELSE /\ txn' = Nil
            /\ op_res' = [by |-> by, call |-> call, res |-> b.res]
    /\ emitted' = Quiet
    /\ UNCHANGED <<nodes, daemonVars>>

\* txn.commit()?: the table of the transaction becomes the stored table, or
\* the commit fails and the call returns the error.  rc.clean records
\* whether the table is still as the last reconciliation left it.
StoreCommit ==
    /\ txn # Nil
    /\ ~txn[1].committed
    /\ \E ok \in BOOLEAN :
         IF ok
         THEN /\ nodes' = txn[1].table
              /\ txn' = Some([txn[1] EXCEPT !.committed = TRUE])
              /\ op_res' = op_res
              /\ rc' = [rc EXCEPT !.clean = rc.clean /\ (rc.pc # "done" \/ nodes' = nodes)]
         ELSE /\ nodes' = nodes
              /\ txn' = Nil
              /\ op_res' = [op_res EXCEPT !.res = "io"]
              /\ rc' = rc
    /\ emitted' = Quiet
    /\ UNCHANGED daemonVars

\* After the commit: self.events.send(..) for each event, then Ok(()).
StoreSend ==
    /\ txn # Nil
    /\ txn[1].committed
    /\ emitted' = [Quiet EXCEPT !.events = PopOrder(txn[1].events)]
    /\ txn' = Nil
    /\ op_res' = [op_res EXCEPT !.res = "Ok"]
    /\ UNCHANGED <<nodes, daemonVars, rc>>

\* Values of M_DEV_ST and M_DEV_DC as the IE bytes they come from.
DevStatus == <<1, 0, 0, 0, 0, 0, 0>>
DevDescriptor == <<7, 0, 0, 0, 0, 0, 0>>

\* Calls of the table's interface by other code (tests, processes): records
\* and keys are the caller's choice.
ApiRecs ==
    { FreshRecord(1), FreshRecord(2),
      [FreshRecord(1) EXCEPT !.device_status = Some(DevStatus)] }
ApiCalls ==
    { [op |-> "update", key |-> k, rec |-> r, mode |-> md] :
        k \in {1, 2}, r \in ApiRecs, md \in UpdateModes }
    \cup { [op |-> "update_many", recs |-> rs, mode |-> md] :
             rs \in { <<>>, <<FreshRecord(1), FreshRecord(2)>>,
                      <<FreshRecord(3), FreshRecord(1)>>,
                      <<FreshRecord(2), FreshRecord(2)>>,
                      <<[FreshRecord(1) EXCEPT !.device_status = Some(DevStatus)],
                        FreshRecord(1)>> },
             md \in UpdateModes }
    \cup { [op |-> "modify", key |-> 1, out |-> Nil] }

ApiCall ==
    /\ rc.pc = "done"
    /\ \E call \in ApiCalls : StoreCall("api", call)
    /\ UNCHANGED rc

LoadKeys == { <<1>>, <<1, 2>>, <<3, 1>>, <<2, 3, 1>> }

\* A call of load_many.
ApiLoadMany ==
    /\ rc.pc = "done"
    /\ txn = Nil
    /\ \E keys \in LoadKeys :
         op_res' = [by |-> "api", call |-> [op |-> "load_many", keys |-> keys],
                    res |-> LoadMany(nodes, keys, <<>>).res,
                    recs |-> LoadMany(nodes, keys, <<>>).recs]
    /\ emitted' = Quiet
    /\ UNCHANGED <<nodes, txn, rc, daemonVars>>

\* IOBs the persistor may receive: the two it stores, and ones with another
\* common address, another IOA, or an IE that does not go with the IOA.
MkIob(ca, ioa, ti, bytes) ==
    [asdh |-> ASDHWith(ca, COT_REQ, FALSE), dui |-> [ti |-> ti, vsq |-> 1],
     ioa |-> ioa, ie |-> [ti |-> ti, bytes |-> bytes]]
PersistIobs ==
    { MkIob(62, 1, 232, DevStatus), MkIob(62, 2, 233, DevDescriptor),
      MkIob(62, 1, 233, DevDescriptor), MkIob(62, 2, 232, DevStatus),
      MkIob(62, 3, 232, DevStatus), MkIob(10, 1, 232, DevStatus) }
PersistInputs ==
    { IOBMessage(ServerMessage(a, CPrm("PrmSendNoreply"), <<>>), iob) :
        a \in {1, 3}, iob \in PersistIobs }

\* PersistProcess::run for one received IOB, up to the commit inside modify.
PersistStore ==
    /\ rc.pc = "done"
    /\ txn = Nil
    /\ \E m \in PersistInputs :
         IF PersistRecord(m) = Nil
         THEN /\ op_res' = [by |-> "persist", call |-> [op |-> "ignored", m |-> m],
                            res |-> "Ok"]
              /\ emitted' = Quiet
              /\ UNCHANGED <<nodes, txn, daemonVars>>
         ELSE StoreCall("persist", [op |-> "modify", key |-> m.message.header.address,
                                    out |-> PersistRecord(m), m |-> m])
    /\ UNCHANGED rc

(***************************************************************************)
(* main: reconciliation of the node table with the external model          *)
(* (main.rs, NodeModelSource::SOL).                                        *)
(***************************************************************************)
\* Passes of the reconciliation (starts of the daemon) the model follows.
MaxPasses == 2

\* sol::loader::load: one default record per address of the user model, in
\* the model's order.
ModelNodes(model) == [i \in 1..Len(model) |-> FreshRecord(model[i])]

Contains(seq, x) == \E i \in 1..Len(seq) : seq[i] = x

\* model_nodes filtered by !nodes.contains(&node.address)
NewNodes(model, node_list) ==
    SelectSeq(ModelNodes(model), LAMBDA node : ~Contains(node_list, node.address))

\* Variant of GoneNodes: the filter is inverted, the nodes the model names
\* count as gone.
GoneNodes_inModel(model, node_list) ==
    SelectSeq(node_list, LAMBDA org_node : Contains(model, org_node))

\* Variant of GoneNodes: every node of the list counts as gone.
GoneNodes_all(model, node_list) == node_list

\* nodes filtered by !model_nodes.iter().any(|node| *org_node == node.address)
GoneNodes(model, node_list) ==
    SelectSeq(node_list, LAMBDA org_node : ~Contains(model, org_node))

\* The user models: the one of scenario S4 against a store {1, 2}, the
\* store's own nodes, an address listed twice, and an empty network.
Models == { <<2, 3>>, <<1, 2>>, <<3, 3>>, <<>> }

StartPass(model, pass, clean) ==
    [pc |-> "start", model |-> model, nodes |-> <<>>, pass |-> pass, clean |-> clean]

\* db.nodes.list() and db.nodes.update_many(new_nodes, MustCreate)
RcUpdateMany ==
    /\ rc.pc = "start"
    /\ StoreCall("reconcile", [op |-> "update_many",
                               recs |-> NewNodes(rc.model, ListNodes(nodes)),
                               mode |-> "MustCreate"])
    /\ rc' = [rc EXCEPT !.pc = "update_many", !.nodes = ListNodes(nodes)]

\* update_many returned Ok: db.nodes.remove_many(..)
RcRemoveMany ==
    /\ rc.pc = "update_many"
    /\ op_res.res = "Ok"
    /\ StoreCall("reconcile", [op |-> "remove_many",
                               keys |-> GoneNodes(rc.model, rc.nodes)])
    /\ rc' = [rc EXCEPT !.pc = "remove_many"]

\* remove_many returned Ok: main goes on to client_connect.
RcDone ==
    /\ rc.pc = "remove_many"
    /\ txn = Nil
    /\ op_res.res = "Ok"
    /\ rc' = [rc EXCEPT !.pc = "done", !.clean = TRUE]
    /\ emitted' = Quiet
    /\ UNCHANGED <<nodes, txn, op_res, daemonVars>>

\* update_many or remove_many returned an error: `?` returns it from main.
RcFailed ==
    /\ rc.pc \in {"update_many", "remove_many"}
    /\ txn = Nil
    /\ op_res.res \notin {"Ok", "pending"}
    /\ rc' = [rc EXCEPT !.pc = "failed"]
    /\ emitted' = Quiet
    /\ UNCHANGED <<nodes, txn, op_res, daemonVars>>

\* The daemon is started again with the same user model.  clean: the table
\* is as the previous pass left it.
RcRestart ==
    /\ rc.pc = "done"
    /\ txn = Nil
    /\ rc.pass < MaxPasses
    /\ rc' = StartPass(rc.model, rc.pass + 1, rc.clean)
    /\ emitted' = Quiet
    /\ UNCHANGED <<nodes, txn, op_res, daemonVars>>

\* The node table under its callers after main's reconciliation: the
\* persistor and other callers of the table's interface.
StoreInit ==
    /\ Init
    /\ overflow_checks = FALSE

StoreNext ==
    \/ StoreCommit
    \/ StoreSend
    \/ ApiCall
    \/ ApiLoadMany
    \/ PersistStore

SpecStore == StoreInit /\ [][StoreNext]_vars

\* main's reconciliation over the starts of the daemon, with the persistor
\* storing IOBs in between.
ReconcileInit ==
    /\ InitCommon
    /\ overflow_checks = FALSE
    /\ sup_pc = "connect"
    /\ sock = "closed"
    /\ iob_q = [s \in {} |-> <<>>]
    /\ iob_lag = [s \in {} |-> FALSE]
    /\ nodes \in InitStores
    /\ rc \in { StartPass(model, 1, FALSE) : model \in Models }
    /\ cx = CodecIdle
    /\ fw = FwuIdle
    /\ img = ImgIdle
    /\ frm = FrameIdle

ReconcileNext ==
    \/ RcUpdateMany
    \/ RcRemoveMany
    \/ RcDone
    \/ RcFailed
    \/ RcRestart
    \/ StoreCommit
    \/ StoreSend
    \/ PersistStore

SpecReconcile == ReconcileInit /\ [][ReconcileNext]_vars

(***************************************************************************)
(* Codec harness: a packet written with the builder, or a prefix of it, is *)
(* read with next_token ("tokens") or with the IOB iterator ("iobs"), as   *)
(* the tests of scanner.rs and dispatch_server_message do.                 *)
(***************************************************************************)
\* Calls of next_token made after the first Err.
MaxRepeat == 2

ScanInit ==
    /\ InitCommon
    /\ sup_pc = "connect"
    /\ sock = "closed"
    /\ iob_q = [s \in {} |-> <<>>]
    /\ iob_lag = [s \in {} |-> FALSE]
    /\ nodes = EmptyTable
    /\ rc = Reconciled
    /\ fw = FwuIdle
    /\ img = ImgIdle
    /\ frm = FrameIdle
    /\ \E input \in CodecInputs, mode \in {"tokens", "iobs"} :
         \E cut \in 0..Len(BuildPacket(input)) :
            /\ mode = "iobs" => cut = Len(BuildPacket(input))
            /\ cx = [CodecIdle EXCEPT !.mode = mode, !.input = input,
                                      !.pkt = SubSeq(BuildPacket(input), 1, cut)]

\* scanner.next_token()
TokenCall ==
    /\ cx.mode = "tokens"
    /\ cx.res # "panic"
    /\ cx.extra < MaxRepeat
    /\ LET r == NextToken(cx.sc, cx.pkt, overflow_checks) IN
       cx' = [cx EXCEPT !.sc = r.sc, !.res = r.res,
                        !.toks = IF r.res = "ok" THEN Append(cx.toks, r.tok) ELSE cx.toks,
                        !.extra = IF cx.res \in {None, "ok"} THEN 0 ELSE cx.extra + 1]
    /\ UNCHANGED <<overflow_checks, frm, fw, img, supVars, connVars, dispVars, chanVars,
                   scanVars, p_pc, cl, nodes, emitted, storeVars>>

\* One turn of `for item in scanner.into_iob_iter()`.
IobCall ==
    /\ cx.mode = "iobs"
    /\ cx.res \in {None, "ok"}
    /\ LET r == IobNext(cx.it, cx.pkt, overflow_checks) IN
       cx' = [cx EXCEPT !.it = r.it, !.res = r.res,
                        !.iobs = IF r.res = "ok" THEN Append(cx.iobs, r.iob) ELSE cx.iobs]
    /\ UNCHANGED <<overflow_checks, frm, fw, img, supVars, connVars, dispVars, chanVars,
                   scanVars, p_pc, cl, nodes, emitted, storeVars>>

ScanNext ==
    \/ TokenCall
    \/ IobCall

SpecScan == ScanInit /\ [][ScanNext]_vars

(***************************************************************************)
(* The frame send_message writes for a message (client_connection.rs).     *)
(***************************************************************************)
\* The Message send_prm makes of (fc, address, buf).
PrmMessage(fc, address, buf) ==
    [port |-> "PORT_AUTO", header |-> [C |-> CPrm(fc), address |-> address],
     payload |-> buf]

\* Longest payload passed to send_message.
MaxPayload == 257

\* raw_msg: the Message struct written after the magic; `len() as u8`
\* keeps the low 8 bits of the payload's length.
RawMessage(id, msg) ==
    [id |-> id, iPort |-> msg.port, header |-> msg.header,
     payloadLength |-> Len(msg.payload) % U8]

\* The three write_all calls: magic, header, payload.
FrameOf(id, msg) == <<MAGIC_MESSAGE, RawMessage(id, msg), msg.payload>>

\* A caller passes a message with a payload of any length up to MaxPayload.
FrameInit ==
    /\ InitCommon
    /\ overflow_checks = FALSE
    /\ sup_pc = "running"
    /\ sock = "open"
    /\ iob_q = [s \in {} |-> <<>>]
    /\ iob_lag = [s \in {} |-> FALSE]
    /\ nodes = EmptyTable
    /\ rc = Reconciled
    /\ cx = CodecIdle
    /\ fw = FwuIdle
    /\ img = ImgIdle
    /\ \E n \in 0..MaxPayload, fc \in {"PrmSendNoreply", "PrmSendConfirm"} :
         frm = [FrameIdle EXCEPT
                  !.msg = Some(PrmMessage(fc, 1, [j \in 1..n |-> j % U8]))]

\* send_message builds raw_msg and writes the frame.
FrameSend ==
    /\ frm.msg # Nil
    /\ frm.written = Nil
    /\ frm' = [frm EXCEPT !.written = Some(FrameOf(id_gen, frm.msg[1]))]
    /\ UNCHANGED <<overflow_checks, cx, fw, img, supVars, connVars, dispVars, chanVars,
                   scanVars, p_pc, cl, nodes, emitted, storeVars>>

SpecFrame == FrameInit /\ [][FrameSend]_vars

(***************************************************************************)
(* Firmware container (sol-lib/image_header.rs).  The model keeps the      *)
(* structure on narrow words: a payload is a sequence of bits, payload_size*)
(* is an unsigned word modulo SizeModulus (u32 in the code), the CRC has   *)
(* three bits (32 in the code).                                            *)
(***************************************************************************)
\* Values of the payload_size word (2^32 in the code).
SizeModulus == 4
\* Longest payload presented: longer than the largest payload_size.
MaxPayloadLen == SizeModulus + 1

MAGIC1 == "FEEDBEEF"
MAGIC2 == "DEADBEEF"

\* crc(buf): CRC_32_CKSUM is a CRC without reflection, with init 0 and
\* xorout all ones; here with the generator x^3 + x + 1.
RECURSIVE CrcReg(_)
CrcReg(buf) ==
    IF buf = <<>> THEN 0
    ELSE LET reg == CrcReg(SubSeq(buf, 1, Len(buf) - 1))
             sh == (reg * 2) % 8
         IN IF reg \div 4 # buf[Len(buf)]
            THEN sh + 1 + (IF (sh \div 2) % 2 = 1 THEN -2 ELSE 2)
            ELSE sh
Crc(buf) == 7 - CrcReg(buf)

\* The raw bytes of the header union: the fields, payload_size first.
HeaderRaw(h) ==
    <<h.payload_size \div 2, h.payload_size % 2,
      h.payload_crc \div 4, (h.payload_crc \div 2) % 2, h.payload_crc % 2>>

\* Container::verify(payload); `pay.len() as u32` keeps the low bits of the
\* length.
Verify(c, payload) ==
    IF c.magic1 # MAGIC1 \/ c.magic2 # MAGIC2 THEN "HeaderMagicNotPresent"
    ELSE IF Crc(HeaderRaw(c.header)) # c.header_crc THEN "HeaderCRCInvalid"
    ELSE IF payload = Nil THEN "Ok"
    ELSE IF c.header.payload_size # Len(payload[1]) % SizeModulus
         THEN "PayloadSizeInvalid"
    ELSE IF Crc(payload[1]) # c.header.payload_crc THEN "PayloadCRCInvalid"
    ELSE "Ok"

\* A container as read from a file, and the payload presented with it (or
\* none): any magics, any header, header_crc right or wrong.
ImgInit ==
    /\ InitCommon
    /\ overflow_checks = FALSE
    /\ sup_pc = "connect"
    /\ sock = "closed"
    /\ iob_q = [s \in {} |-> <<>>]
    /\ iob_lag = [s \in {} |-> FALSE]
    /\ nodes = EmptyTable
    /\ rc = Reconciled
    /\ cx = CodecIdle
    /\ fw = FwuIdle
    /\ frm = FrameIdle
    /\ \E m1 \in {MAGIC1, MAGIC2}, m2 \in {MAGIC1, MAGIC2}, size \in 0..(SizeModulus - 1),
          pcrc \in 0..7, hcrc_ok \in BOOLEAN :
         \E payload \in {Nil} \cup {Some(b) : b \in UNION {[1..n -> {0, 1}] :
                                                            n \in 0..MaxPayloadLen}} :
            LET h == [payload_size |-> size, payload_crc |-> pcrc]
                hcrc == IF hcrc_ok THEN Crc(HeaderRaw(h)) ELSE (Crc(HeaderRaw(h)) + 1) % 8
            IN img = [c |-> [magic1 |-> m1, header |-> h, header_crc |-> hcrc,
                             magic2 |-> m2],
                      payload |-> payload, res |-> None, flipped |-> FALSE]

\* print_header: hdr.verify(Some(&payload)), or verify(None).
ImgVerify ==
    /\ img.res = None
    /\ img' = [img EXCEPT !.res = Verify(img.c, img.payload)]
    /\ UNCHANGED <<overflow_checks, frm, cx, fw, supVars, connVars, dispVars, chanVars,
                   scanVars, p_pc, cl, nodes, emitted, storeVars>>

\* One bit of the payload of a container that verified is flipped; the
\* container is verified again.
ImgFlip ==
    /\ img.res = "Ok"
    /\ img.payload # Nil
    /\ ~img.flipped
    /\ \E i \in 1..Len(img.payload[1]) :
         img' = [img EXCEPT !.payload = Some([img.payload[1] EXCEPT ![i] = 1 - @]),
                            !.res = None, !.flipped = TRUE]
    /\ UNCHANGED <<overflow_checks, frm, cx, fw, supVars, connVars, dispVars, chanVars,
                   scanVars, p_pc, cl, nodes, emitted, storeVars>>

ImgNext ==
    \/ ImgVerify
    \/ ImgFlip

SpecImg == ImgInit /\ [][ImgNext]_vars

(***************************************************************************)
(* FWUProcess (ptnet_process/fwu.rs) as a caller of send_message.          *)
(***************************************************************************)
\* Events the process handles in one run of the model.
MaxFwuEvents == 2

\* COT::DEACT and TC_C_FW_IU (TI240), bound from the C header of the
\* protocol.
COT_DEACT == 8
TC_C_FW_IU == 240

\* The packet process_node builds: with_asdh, begin_asdu, add_ioa(0).
CancelPacket ==
    AddIoa(BeginAsdu(WithAsdh(ASDHWith(62, COT_DEACT, FALSE)),
                     DUIWithDirect(TC_C_FW_IU, 1, FALSE)), 0)

\* FWUStateTable::get_or_create_for: the table afterwards.
GetOrCreateFor(goals, a) ==
    IF goals[a] = Nil THEN [goals EXCEPT ![a] = Some("None")] ELSE goals

\* The node events the process may receive: the node's device_status is
\* unknown or carries a fw_state ("other" is a value FW_State_A does not
\* have).
FwuEvents ==
    [kind : {"NodeAdded", "NodeModified"},
     rec : {[FreshRecord(a) EXCEPT !.device_status = st] :
               a \in NodeAddrs,
               st \in {Nil} \cup {Some([fw_state |-> f]) :
                          f \in {"Idle", "Download", "Flashing", "Updated", "other"}}}]

\* Variant of ProcessNode: the update is cancelled whatever the fw_state.
ProcessNode_cancelAlways(goal, status) ==
    IF status = Nil THEN "skip"
    ELSE IF status[1].fw_state = "other" THEN "err"
    ELSE IF goal # "None" THEN "todo"
    ELSE "cancel"

\* process_node after get_or_create_for: what it does for the goal and
\* the device_status of the node.
ProcessNode(goal, status) ==
    IF status = Nil THEN "skip"
    ELSE IF status[1].fw_state = "other" THEN "err"
    ELSE IF goal # "None" THEN "todo"
    ELSE IF status[1].fw_state = "Idle" THEN "idle"
    ELSE "cancel"

\* run: recv() returns a node event, process_node runs up to the end or to
\* the first write of send_message.
FwuEvent ==
    /\ Running
    /\ fw.pc = "recv"
    /\ fw.n < MaxFwuEvents
    /\ lock = None
    /\ wlock = None
    /\ n_sent < MaxSends
    /\ \E evt \in FwuEvents :
         LET a == evt.rec.address
             goals1 == GetOrCreateFor(fw.goals, a)
             goal == goals1[a][1]
             d == ProcessNode(goal, evt.rec.device_status)
             fw1 == [fw EXCEPT !.goals = goals1, !.n = fw.n + 1,
                               !.last = Some([evt |-> evt, goal |-> goal])]
             msg == PrmMessage("PrmSendNoreply", a, CancelPacket)
             called == [fw1 EXCEPT !.sent = Append(fw.sent, msg)]
         IN IF d = "todo" \/ (d = "cancel" /\ SendPanics)
            THEN \* todo!(), or the id overflow in send_message
                 /\ sup_pc' = "aborted"
                 /\ emitted' = Logged("panic")
                 /\ fw' = IF d = "cancel" THEN called ELSE fw1
                 /\ UNCHANGED <<overflow_checks, frm, cx, img, storeVars, join_err, sock, connVars,
                                dispVars, chanVars, nodes, scanVars, p_pc, cl>>
            ELSE IF d = "cancel"
            THEN /\ SendReserve("fw")
                 /\ fw' = [called EXCEPT !.pc = "sending"]
                 /\ emitted' = Quiet
                 /\ UNCHANGED <<overflow_checks, frm, cx, img, storeVars, supVars, dispVars, chanVars,
                                nodes, scanVars, p_pc, cl>>
            ELSE /\ fw' = fw1
                 /\ emitted' = IF d = "err" THEN Logged("Error processing node")
                                ELSE Quiet
                 /\ UNCHANGED <<overflow_checks, frm, cx, img, storeVars, supVars, connVars, dispVars,
                                chanVars, nodes, scanVars, p_pc, cl>>

FwuWrite ==
    /\ Running
    /\ fw.pc = "sending"
    /\ SendWrite("fw")
    /\ emitted' = Quiet
    /\ UNCHANGED <<overflow_checks, harnessVars, storeVars, supVars, dispVars, chanVars, nodes,
                   scanVars, p_pc, cl>>

\* send_prm returns Ok(receiver); the receiver is dropped.
FwuSent ==
    /\ Running
    /\ fw.pc = "sending"
    /\ SendFinish("fw", FALSE)
    /\ fw' = [fw EXCEPT !.pc = "recv"]
    /\ emitted' = Quiet
    /\ UNCHANGED <<overflow_checks, frm, cx, img, storeVars, supVars, dispVars, chanVars, nodes,
                   scanVars, p_pc, cl>>

\* send_prm returns Err: the error is logged, process_node returns Ok.
FwuWriteErr ==
    /\ Running
    /\ fw.pc = "sending"
    /\ SendFail("fw")
    /\ fw' = [fw EXCEPT !.pc = "recv"]
    /\ emitted' = Logged("Error sending TI240")
    /\ UNCHANGED <<overflow_checks, frm, cx, img, storeVars, sup_pc, join_err, dispVars, chanVars,
                   nodes, scanVars, p_pc, cl>>

\* One session in which the FWU process is the caller of send_message, with
\* any fwu_state table.
FwuInit ==
    /\ InitCommon
    /\ sup_pc = "running"
    /\ sock = "open"
    /\ iob_q = [s \in {} |-> <<>>]
    /\ iob_lag = [s \in {} |-> FALSE]
    /\ nodes = EmptyTable
    /\ rc = Reconciled
    /\ cx = CodecIdle
    /\ img = ImgIdle
    /\ frm = FrameIdle
    /\ \E goals \in [NodeAddrs -> {Nil, Some("None"), Some("KeepCurrent")}] :
         fw = [FwuIdle EXCEPT !.goals = goals]

FwuNext ==
    \/ FwuEvent
    \/ FwuWrite
    \/ FwuSent
    \/ FwuWriteErr

SpecFwu == FwuInit /\ [][FwuNext]_vars

\* The same session with the dispatcher reading the gateway's MessageResult
\* frames.
FwuSessionNext ==
    \/ FwuEvent
    \/ FwuWrite
    \/ FwuSent
    \/ FwuWriteErr
    \/ DispatchResult
    \/ DResultLocked

SpecFwuSession == FwuInit /\ [][FwuSessionNext]_vars


(***************************************************************************)
(* Properties.                                                             *)
(***************************************************************************)
\* C1: every frame that waits for its result has its waiter registered, and
\* a MessageResult the gateway sends for a frame is delivered to the waiter
\* registered for that frame, also after id_gen has wrapped while an older
\* frame with the same id is still pending.  (Checked under SpecMux.)
C1_ResultToRegisteredWaiter ==
    \A k \in Seqs :
        /\ oneshot[k].st # "tx_dropped"
        /\ (oneshot[k].st = "sent" /\ oneshot[k].for # -1) => oneshot[k].for = k

FrameParts == <<"magic", "header", "payload">>
C3_WholeFramesInOrder ==
    \A j \in 1..Len(wire) :
        /\ wire[j].seq = (j - 1) \div 3
        /\ wire[j].part = FrameParts[((j - 1) % 3) + 1]

\* C3's case: two callers overlap: one is inside its writes while the other
\* has written its frame and a third call has started.
C3_Witness ==
    /\ Len(wire) >= 4
    /\ \E c, d \in Clients :
         /\ c # d
         /\ snd[c].pc \in {"w_header", "w_payload"}
         /\ snd[d].seq < snd[c].seq
         /\ cl[d].pc = "await"

\* C4: the daemon never leaves the reconnect loop, every back-off and every
\* sleep after a failed connect ends in a new connect attempt.  (Checked
\* under FairSpec.)
C4_ReconnectForever ==
    /\ [](sup_pc # "aborted")
    /\ (sup_pc = "backoff") ~> (sup_pc = "connect")
    /\ (sup_pc = "sleep_connect") ~> (sup_pc = "connect")

\* C5: after a process of the session has returned an error, the session
\* takes no further step (nothing is written, read, published or stored)
\* until the supervisor drops it, and the error the supervisor holds is the
\* error of the one process that returned.
SessionVars ==
    <<sock, connVars, dispVars, chanVars, nodes, scanVars, p_pc>>
Returned ==
    {x \in {"dispatcher", "NodeScan", "Persist"} :
        \/ x = "dispatcher" /\ d_pc = "returned"
        \/ x = "NodeScan" /\ n_pc = "returned"
        \/ x = "Persist" /\ p_pc = "returned"}
C5_FailFast ==
    [][ /\ (join_err # NoErr /\ join_err' # NoErr) =>
             /\ UNCHANGED SessionVars
             /\ join_err' = join_err
        /\ (join_err # NoErr /\ join_err' = NoErr) =>
             /\ sup_pc' = "connect"
             /\ nodes' = nodes
        /\ (join_err = NoErr /\ join_err' # NoErr) =>
             /\ Returned = {}
             /\ Returned' = {join_err'.proc}
             /\ sup_pc' = "backoff"
        /\ (join_err = NoErr /\ join_err' = NoErr /\ sup_pc' # "aborted") =>
             Returned' = {}
      ]_vars

\* C5's case: Persist has returned an error while NodeScan was in the
\* middle of writing a frame and the dispatcher could read.
C5_Witness ==
    /\ sup_pc = "backoff"
    /\ join_err.proc = "Persist"
    /\ snd["ns"].pc = "w_header"
    /\ d_pc = "magic"


\* The one complete IOB of PktStatusThenShort: TI232 at IOA 1.
StatusIob ==
    [asdh |-> ASDHWith(62, COT_REQ, FALSE), dui |-> [ti |-> 232, vsq |-> 1], ioa |-> 1,
     ie |-> [ti |-> 232, bytes |-> <<2, 0, 0, 0, 0, 0, 0>>]]

\* C6: when the IOB iterator yields an error in the payload of a server
\* message, the IOBs before the error are published on iob_broadcast and
\* reach every receiver, nothing after them is published, the message is
\* published on broadcast, and the dispatcher goes on with the next frame:
\* no error, the session stays up.
C6_ParseErrorNonFatal ==
    [][ \A m \in ServerMsgs :
          (emitted'.msgs = <<m>> /\ m.payload = PktStatusThenShort) =>
              /\ emitted'.iobs = << IOBMessage(m, StatusIob) >>
              /\ \A s \in DOMAIN iob_q' :
                   /\ iob_q'[s] # <<>>
                   /\ iob_q'[s][Len(iob_q'[s])] = IOBMessage(m, StatusIob)
              /\ d_pc' = "magic"
              /\ sup_pc' = "running"
              /\ join_err' = NoErr
      ]_vars

\* C6's case: the message whose payload breaks off after its first IOB has
\* been dispatched, and the dispatcher reads on.
C6_Witness ==
    /\ Len(emitted.msgs) = 1
    /\ emitted.msgs[1].payload = PktStatusThenShort
    /\ Len(emitted.iobs) = 1
    /\ d_pc = "magic"
    /\ sup_pc = "running"

\* C7: a magic that is neither MAGIC_RESULT nor MAGIC_SERVER_MESSAGE makes
\* the dispatcher return an error after that one read, nothing is published
\* or delivered, and the session ends; a dispatcher that has returned reads
\* nothing more.
C7_UnknownMagicEndsSession ==
    [][ /\ emitted'.magic \notin {None, MAGIC_RESULT, MAGIC_SERVER_MESSAGE} =>
             /\ d_pc' = "returned"
             /\ join_err' = Err("dispatcher", "Unsupported magic")
             /\ sup_pc' = "backoff"
             /\ emitted'.reads = 1
             /\ emitted'.iobs = <<>>
             /\ emitted'.msgs = <<>>
             /\ UNCHANGED <<chanVars, request_map, oneshot, nodes>>
        /\ d_pc = "returned" => emitted'.reads = 0
      ]_vars

\* C7's case: the dispatcher has read an unknown magic in a running session.
C7_Witness ==
    /\ emitted.magic = MAGIC_OTHER
    /\ d_pc = "returned"
    /\ sup_pc = "backoff"
    /\ join_err.kind = "Unsupported magic"

\* C8: an IOB that does not match (match_rsp_ti232 is false for the scanned
\* node) does not end the response wait of scan.
C8_OnlyMatchEndsWait ==
    [][ (emitted'.taken # Nil /\ ~MatchRspTi232(emitted'.taken[1], n_node))
            => n_pc' = "await_rsp" ]_vars

\* C9: when the response timer of scan fires, scan returns Ok: the store is
\* unchanged, no event is sent, no error reaches the supervisor, the session
\* stays up, the snapshot is kept, and the loop goes on with its next record.
C9_TimeoutIsSuccess ==
    [][ /\ emitted'.log = "Response timed out!" =>
             /\ n_pc = "await_rsp"
             /\ n_pc' = "tick"
             /\ UNCHANGED <<nodes, n_todo, sock>>
             /\ emitted'.events = <<>>
             /\ join_err' = NoErr
             /\ sup_pc' = "running"
        /\ (n_pc = "tick" /\ n_todo # <<>> /\ n_pc' # "tick" /\ sup_pc' = "running") =>
             /\ n_pc' = "sending"
             /\ n_node' = Head(n_todo)
             /\ n_todo' = Tail(n_todo)
      ]_vars

\* C9's case: the result has arrived, no IOB has, the timer has fired, and
\* the snapshot has a next record.
C9_Witness ==
    /\ emitted.log = "Response timed out!"
    /\ n_pc = "tick"
    /\ n_todo # <<>>
    /\ iob_q["ns"] = <<>>
    /\ ~iob_lag["ns"]
    /\ sup_pc = "running"

\* C10: a receiver of iob_broadcast that has lagged goes on after the gap:
\* the recv that finds the lag ends in no error and the session stays up.
C10_LagIsSkipped ==
    [][ \A s \in DOMAIN iob_lag' :
          (s \in DOMAIN iob_lag /\ iob_lag[s] /\ ~iob_lag'[s]) =>
              /\ join_err' = NoErr
              /\ sup_pc' = "running" ]_vars


(***************************************************************************)
(* Properties of the node table and of the reconciliation.                 *)
(***************************************************************************)
\* A step in which a call of the table begins, and the steps of its commit.
CallStep == txn = Nil /\ op_res' # op_res
CommitStep == txn # Nil /\ ~txn[1].committed /\ txn' # Nil
SendStep == txn # Nil /\ txn[1].committed
Keys(table) == {a \in AllAddrs : table[a] # Nil}

\* C11: modify, update and update_many send no event before their write
\* transaction has committed (events are sent only from a state in which
\* the transaction is committed and its table is the stored one), and a
\* call that ends without a commit (early return or failed commit) sends
\* none.
C11_EventsOnlyAfterCommit ==
    [][ /\ emitted'.events # <<>> =>
             /\ txn # Nil
             /\ txn[1].committed
             /\ nodes = txn[1].table
        /\ (txn' = Nil /\ ~SendStep) => emitted'.events = <<>>
      ]_vars

\* C11's case: update_many has committed two records and sent their events.
C11_Witness ==
    /\ op_res.call.op = "update_many"
    /\ op_res.res = "Ok"
    /\ Len(emitted.events) = 2

\* C12: a committed update or modify sends exactly one event: NodeAdded
\* when the key was absent before the call, NodeModified when it was
\* present, with the record that was written as payload.
C12_OneEventPerWrite ==
    [][ op_res.call.op \in {"update", "modify"} =>
          /\ CommitStep =>
               LET key == op_res.call.key
                   ev == txn'[1].events
               IN /\ Len(ev) = 1
                  /\ nodes'[key] = Some(ev[1].rec)
                  /\ ev[1].kind = IF nodes[key] = Nil THEN "NodeAdded"
                                  ELSE "NodeModified"
          /\ SendStep =>
               /\ Len(emitted'.events) = 1
               /\ emitted'.events = txn[1].events
      ]_vars

\* C12's case: an update of a key that was present has returned.
C12_Witness ==
    /\ op_res.call.op = "update"
    /\ op_res.res = "Ok"
    /\ Len(emitted.events) = 1
    /\ emitted.events[1].kind = "NodeModified"
    /\ emitted.events[1].rec = op_res.call.rec

BatchFails(table, recs, mode) ==
    \E i \in 1..Len(recs) :
       LET present == \/ table[recs[i].address] # Nil
                      \/ \E j \in 1..(i - 1) : recs[j].address = recs[i].address
       IN \/ mode = "MustCreate" /\ present
          \/ mode = "MustExist" /\ ~present

\* C14: update_many is all-or-nothing: when a record of the batch fails the
\* mode's precondition the call returns the error, the stored table is as
\* before (also for the records before the failing one), no transaction
\* stays open and no event is sent.
C14_UpdateManyAllOrNothing ==
    [][ (CallStep /\ op_res'.call.op = "update_many"
           /\ BatchFails(nodes, op_res'.call.recs, op_res'.call.mode)) =>
          /\ op_res'.res \in {"AlreadyExists", "NotFound"}
          /\ txn' = Nil
          /\ nodes' = nodes
          /\ emitted'.events = <<>>
      ]_vars

\* C14's case: a MustCreate batch whose second record exists, the first
\* one being new, has returned AlreadyExists.
C14_Witness ==
    /\ op_res.call.op = "update_many"
    /\ op_res.res = "AlreadyExists"
    /\ op_res.call.recs = <<FreshRecord(3), FreshRecord(1)>>
    /\ nodes[3] = Nil
    /\ nodes[1] # Nil

\* C15: update fails with AlreadyExists for MustCreate on a present key and
\* with NotFound for MustExist on an absent key, the table unchanged and no
\* event sent; otherwise, and always with UpdateOrCreate, it writes the
\* record under the key.
C15_UpdateModes ==
    [][ (CallStep /\ op_res'.call.op = "update") =>
          LET c == op_res'.call
              fails(res) == /\ op_res'.res = res
                            /\ txn' = Nil
                            /\ nodes' = nodes
                            /\ emitted'.events = <<>>
          IN IF c.mode = "MustCreate" /\ nodes[c.key] # Nil THEN fails("AlreadyExists")
             ELSE IF c.mode = "MustExist" /\ nodes[c.key] = Nil THEN fails("NotFound")
             ELSE /\ txn' # Nil
                  /\ txn'[1].table = [nodes EXCEPT ![c.key] = Some(c.rec)]
      ]_vars

\* C15's case: a MustExist update of an absent key has returned NotFound.
C15_Witness ==
    /\ op_res.call.op = "update"
    /\ op_res.call.mode = "MustExist"
    /\ op_res.res = "NotFound"
    /\ nodes[op_res.call.key] = Nil

\* The records a call writes.
WrittenRecs(call) ==
    CASE call.op = "update" -> {call.rec}
      [] call.op = "update_many" -> {call.recs[i] : i \in 1..Len(call.recs)}
      [] call.op = "modify" -> {call.out[1]}
      [] OTHER -> {}

C17_PersistEffect ==
    [][ (CallStep /\ op_res'.by = "persist") =>
          LET m == op_res'.call.m
              a == m.message.header.address
              old == UnwrapOrDefault(nodes[a])
              new == txn'[1].table[a][1]
              others == \A k \in AllAddrs \ {a} : txn'[1].table[k] = nodes[k]
          IN IF m.iob.asdh.ca = 62 /\ m.iob.ioa = 1 /\ m.iob.ie.ti = 232
             THEN /\ txn' # Nil
                  /\ new.device_status = Some(m.iob.ie.bytes)
                  /\ new.device_descriptor = old.device_descriptor
                  /\ others
             ELSE IF m.iob.asdh.ca = 62 /\ m.iob.ioa = 2 /\ m.iob.ie.ti = 233
             THEN /\ txn' # Nil
                  /\ new.device_descriptor = Some(m.iob.ie.bytes)
                  /\ new.device_status = old.device_status
                  /\ others
             ELSE /\ txn' = Nil
                  /\ nodes' = nodes
                  /\ emitted'.events = <<>>
      ]_vars

\* C17's case: the persistor has stored a descriptor for a node whose
\* status it had stored before.
C17_Witness ==
    /\ op_res.by = "persist"
    /\ op_res.call.op = "modify"
    /\ op_res.res = "Ok"
    /\ op_res.call.m.iob.ioa = 2
    /\ nodes[3] # Nil
    /\ nodes[3][1].device_status = Some(DevStatus)
    /\ nodes[3][1].device_descriptor = Some(DevDescriptor)

\* The addresses of a user model.
ModelSet(model) == {model[i] : i \in 1..Len(model)}

\* C18: a reconciliation that met no I/O error completes, and it leaves
\* the table with the key set of the user model.
C18_ReconcileKeySet ==
    /\ rc.pc = "failed" => op_res.res = "io"
    /\ (rc.pc = "done" /\ rc.clean) => Keys(nodes) = ModelSet(rc.model)

\* C19: the reconciliation sends one add event per address it inserts and
\* one delete event per address it removes (store {1, 2} against the model
\* {2, 3}: one delete event for 1, one add event for 3).
C19_ReconcileEvents ==
    [][ (SendStep /\ op_res.by = "reconcile") =>
          /\ op_res.call.op = "update_many" =>
               /\ Len(emitted'.events) = Len(op_res.call.recs)
               /\ \A i \in 1..Len(emitted'.events) :
                     emitted'.events[i].kind = "NodeAdded"
          /\ op_res.call.op = "remove_many" =>
               /\ Len(emitted'.events) = Len(op_res.call.keys)
               /\ \A i \in 1..Len(emitted'.events) :
                     emitted'.events[i].kind \notin {"NodeAdded", "NodeModified"}
      ]_vars

\* C20: a second reconciliation with the same user model, the table being
\* as the first one left it, changes nothing in the table and sends no
\* event.
C20_ReconcileIdempotent ==
    [][ (rc.pass > 1 /\ rc.clean /\ rc.pc \in {"start", "update_many", "remove_many"}) =>
          /\ nodes' = nodes
          /\ emitted'.events = <<>>
          /\ rc'.pc # "failed" \/ op_res.res = "io"
      ]_vars

\* C20's case: the second pass over the model {2, 3} has made both its
\* calls on a table that the first pass left.
C20_Witness ==
    /\ rc.pass = 2
    /\ rc.clean
    /\ rc.model = <<2, 3>>
    /\ rc.pc = "remove_many"
    /\ op_res.res = "Ok"
    /\ txn = Nil
    /\ Keys(nodes) = {2, 3}


\* C21: the ids are allocated from a counter that starts at 0 and wraps at
\* IdModulus: the k-th send_message of a session writes the id k mod
\* IdModulus and leaves id_gen at (k + 1) mod IdModulus; a send_message
\* called with id_gen = IdModulus - 1 succeeds in allocating its id and does
\* not end the daemon (the only panic of a session at that point is the
\* dispatcher's unwrap on a dropped receiver).  (Checked under SpecMux.)
DroppedWaiter ==
    \E i \in Ids : request_map[i] # Nil /\ oneshot[request_map[i][1]].st = "rx_dropped"
C21_IdsWrap ==
    [][ /\ n_sent' # n_sent =>
             /\ id_gen = n_sent % IdModulus
             /\ id_gen' = (n_sent + 1) % IdModulus
             /\ \E p \in Senders :
                  snd'[p] = [pc |-> "w_magic", seq |-> n_sent, id |-> n_sent % IdModulus]
        /\ (sup_pc = "running" /\ id_gen = IdModulus - 1 /\ sup_pc' = "aborted") =>
             DroppedWaiter
      ]_vars


\* C29: the dispatcher handles a MessageResult only when no send_message is
\* between its writes and its request_map.insert (conn.lock is held from
\* the id allocation to the insert); hence a result that answers a written
\* frame is not dropped as "No request_map entry" for want of a waiter that
\* is about to be registered.  (Checked under SpecMux.)
ResultHandled ==
    \/ d_pc = "magic" /\ emitted'.magic = MAGIC_RESULT /\ d_pc' = "magic"
    \/ d_pc = "result_lock" /\ d_pc' = "magic"
\* The frame the handled result answers, -1 if none.
HandledFor ==
    IF d_pc = "result_lock" THEN d_buf[1].for
    ELSE IF answered' = answered THEN -1
    ELSE CHOOSE f \in answered' : f \notin answered
C29_NoHandleBeforeRegister ==
    [][ ResultHandled =>
          /\ \A p \in Senders : snd[p].pc # "insert"
          /\ HandledFor # -1 =>
               /\ oneshot[HandledFor].st # UnusedOneshot.st
               /\ request_map[FrameId(HandledFor)] = Some(HandledFor) =>
                      /\ emitted'.log # "No request_map entry"
                      /\ sup_pc' = "running" => request_map'[FrameId(HandledFor)] = Nil
      ]_vars

\* C29's case: the gateway has answered a frame whose sender has not yet
\* registered the waiter; the dispatcher has read the result and waits for
\* conn.lock.
C29_Witness ==
    /\ d_pc = "result_lock"
    /\ d_buf[1].for # -1
    /\ \E p \in Senders : snd[p].pc = "insert" /\ snd[p].seq = d_buf[1].for


\* The kinds of the tokens that follow a DUI token: under a cause U_TI,
\* U_COT or U_IOA (u) one IOA; otherwise N pairs (IOA, IE) or, with SQ set,
\* one IOA and N IEs.
GroupShape(dui, u) ==
    IF u THEN <<"IOA">>
    ELSE IF VsqSq(dui.vsq)
         THEN <<"IOA">> \o [k \in 1..VsqN(dui.vsq) |-> "IE"]
         ELSE [j \in 1..(2 * VsqN(dui.vsq)) |-> IF j % 2 = 1 THEN "IOA" ELSE "IE"]

\* The kinds of the stream that has the DUI tokens of toks: one ASDH, then
\* every DUI with its group.
RECURSIVE StreamShape(_, _)
StreamShape(toks, u) ==
    IF toks = <<>> THEN <<"ASDH">>
    ELSE LET t == toks[Len(toks)]
             front == StreamShape(SubSeq(toks, 1, Len(toks) - 1), u)
         IN IF t.k = "DUI" THEN front \o <<"DUI">> \o GroupShape(t.v, u) ELSE front

\* The tokens emitted so far follow the shape, and at EOF every group is
\* complete.
StreamConforms(u) ==
    LET e == StreamShape(cx.toks, u) IN
    /\ Len(cx.toks) <= Len(e)
    /\ \A i \in 1..Len(cx.toks) : cx.toks[i].k = e[i]
    /\ cx.res = "eof" => Len(cx.toks) = Len(e)

\* C22 as stated: the token stream is one ASDH, first, then for each group
\* one DUI followed by N pairs (IOA, IE) if SQ = 0 and by one IOA and N IEs
\* if SQ = 1; no ASDH after the first token.  (Checked under SpecScan.)
C22_TokenStream ==
    cx.mode = "tokens" => StreamConforms(FALSE)

\* C22, amended: as stated when the cause of transmission of the ASDH is
\* none of U_TI, U_COT, U_IOA; with one of these causes every DUI token is
\* followed by one IOA token and no IE token.  (Checked under SpecScan.)
C22_TokenStreamByCause ==
    cx.mode = "tokens" =>
        StreamConforms(/\ cx.toks # <<>>
                       /\ cx.toks[1].k = "ASDH"
                       /\ cx.toks[1].v.cot \in {COT_U_TI, COT_U_COT, COT_U_IOA})

\* C22's case: a packet with a group of pairs and a group in sequence mode
\* was scanned to EOF.
C22_Witness ==
    /\ cx.mode = "tokens"
    /\ cx.res = "eof"
    /\ \E i, j \in 1..Len(cx.toks) :
         /\ cx.toks[i].k = "DUI" /\ cx.toks[j].k = "DUI"
         /\ VsqN(cx.toks[i].v.vsq) = 2 /\ ~VsqSq(cx.toks[i].v.vsq)
         /\ VsqN(cx.toks[j].v.vsq) = 2 /\ VsqSq(cx.toks[j].v.vsq)


\* Every DUI of the builder calls has N >= 1.
WellFormed(input) ==
    \A j \in 1..Len(input) : input[j].op = "begin_asdu" => VsqN(input[j].v.vsq) >= 1

\* The lengths at which a group of the packet ends (the ASDH included).
GroupBoundaries(input) ==
    {Len(BuildPacket(SubSeq(input, 1, j))) :
        j \in {k \in 1..Len(input) : k = Len(input) \/ input[k + 1].op = "begin_asdu"}}

\* C23: for any prefix of a well-formed packet the calls of next_token end,
\* after finitely many tokens, in ShortRead if the prefix does not end at a
\* group boundary and in EOF if it does.  (Checked under SpecScan.)
C23_PrefixEndsShortOrEof ==
    (cx.mode = "tokens" /\ WellFormed(cx.input) /\ cx.res \notin {None, "ok"}) =>
        /\ cx.res = IF Len(cx.pkt) \in GroupBoundaries(cx.input) THEN "eof" ELSE "short"
        /\ Len(cx.toks) <= Len(cx.input)


\* The index of the begin_asdu call of the group the call j belongs to.
GroupStart(input, j) ==
    CHOOSE g \in 1..j :
        /\ input[g].op = "begin_asdu"
        /\ \A k \in (g + 1)..j : input[k].op # "begin_asdu"

\* The IOA of the IE written by the call j: the IOA written right before it
\* or, in sequence mode, the group's IOA plus the IE's index in the group.
IoaOfIe(input, j) ==
    LET g == GroupStart(input, j) IN
    IF VsqSq(input[g].v.vsq) THEN input[g + 1].v + (j - (g + 2))
    ELSE input[j - 1].v

\* The IOBs of the packet: one per add_ie call.
RECURSIVE ExpectedIobs(_, _)
ExpectedIobs(input, n) ==
    IF n = 0 THEN <<>>
    ELSE IF input[n].op # "add_ie" THEN ExpectedIobs(input, n - 1)
    ELSE Append(ExpectedIobs(input, n - 1),
                [asdh |-> input[1].v, dui |-> input[GroupStart(input, n)].v,
                 ioa |-> IoaOfIe(input, n), ie |-> input[n].v])

\* C24: the IOB iterator yields one IOB per IE, with the packet's ASDH, the
\* group's DUI and the IE's IOA (the IOA read before the IE, or the base
\* IOA plus the index in sequence mode), and ends without error at EOF;
\* stated for the packets whose IOAs stay within 0..255.  (Checked under
\* SpecScan.)
C24_IobPerIe ==
    LET exp == ExpectedIobs(cx.input, Len(cx.input)) IN
    (/\ cx.mode = "iobs"
     /\ WellFormed(cx.input)
     /\ \A i \in 1..Len(exp) : exp[i].ioa < U8) =>
        /\ Len(cx.iobs) <= Len(exp)
        /\ \A i \in 1..Len(cx.iobs) : cx.iobs[i] = exp[i]
        /\ cx.res \notin {None, "ok"} => (cx.res = "end" /\ cx.iobs = exp)

\* The tokens that carry the values passed to the builder, call by call.
InputTokens(input) ==
    [j \in 1..Len(input) |->
        [k |-> CASE input[j].op = "with_asdh" -> "ASDH"
                 [] input[j].op = "begin_asdu" -> "DUI"
                 [] input[j].op = "add_ioa" -> "IOA"
                 [] input[j].op = "add_ie" -> "IE",
         v |-> input[j].v]]

\* C25: scanning the bytes of a packet written with the builder yields the
\* tokens ASDH, then per group DUI, IOA(s), IE(s), equal to the values
\* passed to the builder, in the same order, followed by EOF.  (Checked
\* under SpecScan.)
C25_RoundTrip ==
    (/\ cx.mode = "tokens"
     /\ WellFormed(cx.input)
     /\ cx.pkt = BuildPacket(cx.input)) =>
        /\ Len(cx.toks) <= Len(cx.input)
        /\ \A i \in 1..Len(cx.toks) : cx.toks[i] = InputTokens(cx.input)[i]
        /\ cx.res \notin {None, "ok"} =>
               (cx.res = "eof" /\ cx.toks = InputTokens(cx.input))


\* C26: a call of next_token that reads a DUI with N = 0 returns
\* InvalidPacket, emits no token and leaves the scanner's position and
\* state where they were, and does so exactly for such a DUI; every further
\* call returns InvalidPacket again, so no token follows.  (Checked under
\* SpecScan.)
C26_ZeroCountIsInvalid ==
    [][ cx.mode = "tokens" =>
          /\ cx'.res = "invalid" <=>
                 /\ cx.sc.state = "ScanDUI"
                 /\ Len(cx.pkt) - cx.sc.pos >= 2
                 /\ VsqN(cx.pkt[cx.sc.pos + 2]) = 0
          /\ cx'.res = "invalid" =>
                 /\ cx'.toks = cx.toks
                 /\ cx'.sc.pos = cx.sc.pos
                 /\ cx'.sc.state = cx.sc.state
          /\ cx.res = "invalid" => cx'.res = "invalid"
      ]_vars

\* C26's case: after a complete group the scanner met a DUI with N = 0 and
\* was called again twice.
C26_Witness ==
    /\ cx.mode = "tokens"
    /\ cx.res = "invalid"
    /\ cx.extra = MaxRepeat
    /\ Len(cx.toks) >= 4
    /\ cx.toks[Len(cx.toks)].k = "IE"


\* C27: on a node event for a node whose goal is None, process_node passes
\* exactly one message to send_prm, the cancellation (ASDH {0x3E, DEACT},
\* DUI {TC_C_FW_IU, N = 1, SQ = 0}, IOA 0) under PRM | SendNoreply for the
\* node's address, if the device_status is known and its fw_state is
\* Download, Flashing or Updated; with fw_state Idle or an unknown
\* device_status it sends nothing and changes no goal.  Nothing is sent
\* outside the handling of an event.  (Checked under SpecFwu.)
C27_CancelWhenNoGoal ==
    [][ /\ fw'.n = fw.n => (fw'.sent = fw.sent /\ fw'.goals = fw.goals)
        /\ Len(wire') <= 3 * Len(fw'.sent)
        /\ (fw'.n # fw.n /\ fw'.last[1].goal = "None") =>
             LET evt == fw'.last[1].evt
                 st == evt.rec.device_status
             IN /\ (st # Nil /\ st[1].fw_state \in {"Download", "Flashing", "Updated"}) =>
                       fw'.sent =
                           Append(fw.sent,
                                  [port |-> "PORT_AUTO",
                                   header |-> [C |-> [prm |-> TRUE, fc |-> "PrmSendNoreply"],
                                               address |-> evt.rec.address],
                                   payload |-> <<62, COT_DEACT, TC_C_FW_IU, 1, 0>>])
                /\ (st = Nil \/ st[1].fw_state = "Idle") =>
                       /\ fw'.sent = fw.sent
                       /\ wire' = wire
                       /\ \A a \in NodeAddrs :
                            fw.goals[a] # Nil => fw'.goals[a] = fw.goals[a]
                       /\ \A a \in NodeAddrs : fw'.goals[a] \in {fw.goals[a], Some("None")}
      ]_vars

\* C27's case: an event with fw_state Idle was handled without a message,
\* and the cancellation for an event with an update in progress was
\* written whole.
C27_Witness ==
    /\ fw.n = 2
    /\ fw.pc = "recv"
    /\ Len(fw.sent) = 1
    /\ Len(wire) = 3
    /\ fw.last[1].goal = "None"
    /\ fw.last[1].evt.rec.device_status # Nil


\* What C28 says verify returns: the first failing check in the order
\* magics, header CRC, payload size, payload CRC.
C28_Verdict(c, payload) ==
    IF ~(c.magic1 = MAGIC1 /\ c.magic2 = MAGIC2) THEN "HeaderMagicNotPresent"
    ELSE IF c.header_crc # Crc(HeaderRaw(c.header)) THEN "HeaderCRCInvalid"
    ELSE IF payload # Nil /\ c.header.payload_size # Len(payload[1])
         THEN "PayloadSizeInvalid"
    ELSE IF payload # Nil /\ c.header.payload_crc # Crc(payload[1])
         THEN "PayloadCRCInvalid"
    ELSE "Ok"

\* C28: verify succeeds exactly when both magics match, the header CRC
\* matches and, if a payload is given, payload_size equals its length and
\* payload_crc its CRC; otherwise it returns the error of the first failing
\* check; a container that verified with its payload returns
\* PayloadCRCInvalid once one bit of the payload is flipped.  (Checked
\* under SpecImg.)
C28_VerifyExact ==
    img.res # None =>
        /\ img.res = C28_Verdict(img.c, img.payload)
        /\ img.flipped => img.res = "PayloadCRCInvalid"


\* C30: the IOBs of a server message are published on parsed_iobs only if
\* the C byte has PRM set and the function code is SendConfirm or
\* SendNoreply; for every other server message no IOB is published; in all
\* cases the raw message is published exactly once on server_messages.
\* (Checked under SpecDispatch.)
C30_PublishedByHeader ==
    emitted.magic = MAGIC_SERVER_MESSAGE =>
        /\ Len(emitted.msgs) = 1
        /\ \A i \in 1..Len(emitted.iobs) :
             /\ HdrPrm(emitted.iobs[i].message.header)
             /\ HdrFc(emitted.iobs[i].message.header) \in {"PrmSendConfirm", "PrmSendNoreply"}
        /\ \A m \in AllServerMsgs :
             (emitted.msgs = <<m>> /\ emitted.iobs # <<>>) =>
                 /\ HdrPrm(m.header)
                 /\ HdrFc(m.header) \in {"PrmSendConfirm", "PrmSendNoreply"}


\* C31: scan(node) eventually returns in every execution in which the node
\* does not respond, also when no MessageResult for the request ever
\* arrives: a scan in progress in a running session always ends.  (Checked
\* under FairScan.)
C31_ScanReturns ==
    (sup_pc = "running" /\ n_pc \in {"sending", "await_result", "await_rsp"})
        ~> ~(sup_pc = "running" /\ n_pc \in {"sending", "await_result", "await_rsp"})


\* C32: after update_many commits, exactly one event has been emitted per
\* record of the batch and the payload of every emitted event equals the
\* value stored under that event's key at commit, also when the batch holds
\* two different records for the same key.  (Checked under SpecStore.)
C32_EventIsCommittedValue ==
    [][ (SendStep /\ op_res.call.op = "update_many") =>
          /\ Len(emitted'.events) = Len(op_res.call.recs)
          /\ \A i \in 1..Len(emitted'.events) :
               nodes'[emitted'.events[i].rec.address] = Some(emitted'.events[i].rec)
      ]_vars


\* C33: in a packet whose ASDH cause is U_TI, U_COT or U_IOA the scanner
\* emits no IE token: every DUI token is followed by one IOA token, after
\* which the remaining count is the DUI's N less one and the scanner
\* expects a DUI again (or ends in EOF), whatever N is.  (Checked under
\* SpecScan.)
C33_NoIeForUCause ==
    (/\ cx.mode = "tokens"
     /\ cx.toks # <<>>
     /\ cx.toks[1].k = "ASDH"
     /\ cx.toks[1].v.cot \in {COT_U_TI, COT_U_COT, COT_U_IOA}) =>
        LET n == Len(cx.toks) IN
        /\ \A i \in 1..n : cx.toks[i].k # "IE"
        /\ \A i \in 2..n : cx.toks[i].k = "IOA" <=> cx.toks[i - 1].k = "DUI"
        /\ (cx.res = "ok" /\ cx.toks[n].k = "IOA") =>
               /\ cx.sc.state = "ScanDUI"
               /\ cx.sc.ies_remaining = VsqN(cx.toks[n - 1].v.vsq) - 1
        /\ cx.res = "eof" => cx.toks[n].k \in {"ASDH", "IOA"}

\* C33's case: under a cause U_TI a DUI with N = 2 was followed by its IOA
\* and then by the next DUI, and the packet was scanned to EOF.
C33_Witness ==
    /\ cx.mode = "tokens"
    /\ cx.res = "eof"
    /\ Len(cx.toks) >= 5
    /\ cx.toks[1].v.cot = COT_U_TI
    /\ cx.toks[2].k = "DUI" /\ VsqN(cx.toks[2].v.vsq) = 2
    /\ cx.toks[3].k = "IOA"
    /\ cx.toks[4].k = "DUI"


\* C34: when a MessageResult arrives for an id whose registered waiter has
\* discarded its receiver (as the FWU process does), the dispatcher drops
\* the result and goes on with the next frame: no step of the dispatcher
\* (a step that leaves the FWU process and the senders as they are) fails
\* or aborts.  (Checked under SpecFwuSession.)
C34_DroppedReceiverIsSkipped ==
    [][ (sup_pc = "running" /\ fw' = fw /\ snd' = snd) =>
          /\ sup_pc' = "running"
          /\ join_err' = NoErr
          /\ d_pc' \in {"magic", "result_lock"}
      ]_vars


\* C35: an IOB that scan(node) takes as the response to its request was
\* received by the dispatcher after the request's frame was written: an IOB
\* broadcast earlier and still queued in NodeScan's subscription is never
\* taken as the response.  (Checked under Spec.)
C35_ResponseIsAfterRequest ==
    [][ (emitted'.taken # Nil /\ MatchRspTi232(emitted'.taken[1], n_node)) =>
            ns_old = 0 ]_vars


C37_LengthFieldIsPayloadLength ==
    frm.written # Nil =>
        frm.written[1][2].payloadLength = Len(frm.written[1][3])


\* The packet holds only groups in sequence mode (SQ = 1, N >= 1) under a
\* cause that carries IEs, and every group's last IOA, b + N - 1, is at
\* most 255.
SqGroupsInRange(input) ==
    /\ input[1].v.cot \notin {COT_U_TI, COT_U_COT, COT_U_IOA}
    /\ \A j \in 1..Len(input) :
         /\ input[j].op = "begin_asdu" =>
                (VsqSq(input[j].v.vsq) /\ VsqN(input[j].v.vsq) >= 1)
         /\ input[j].op = "add_ie" => IoaOfIe(input, j) < U8

\* C38: for an SQ = 1 group with base IOA b and count N where
\* b + N - 1 <= 255 the scanner and the IOB iterator process all N IEs
\* without 8-bit overflow of the IOA: the i-th IOB carries IOA b + i, also
\* when b + N - 1 = 255, and the group ends normally.  (Checked under
\* SpecScan.)
C38_SqGroupWithinRange ==
    LET exp == ExpectedIobs(cx.input, Len(cx.input)) IN
    (SqGroupsInRange(cx.input) /\ cx.pkt = BuildPacket(cx.input)) =>
        /\ cx.res # "panic"
        /\ cx.mode = "tokens" => (cx.res \notin {None, "ok"} => cx.res = "eof")
        /\ cx.mode = "iobs" =>
              /\ Len(cx.iobs) <= Len(exp)
              /\ \A i \in 1..Len(cx.iobs) : cx.iobs[i].ioa = exp[i].ioa
              /\ cx.res \notin {None, "ok"} =>
                     (cx.res = "end" /\ Len(cx.iobs) = Len(exp))


\* C39: the reconciliation leaves the stored record of every address that
\* is both in the external list and already in the store unchanged (its
\* device_status and device_descriptor are kept) and emits no event for
\* it.  (Checked under SpecReconcile.)
C39_KeptRecordsUntouched ==
    [][ rc.pc \in {"start", "update_many", "remove_many"} =>
          LET listed == IF rc.pc = "start" THEN ListNodes(nodes) ELSE rc.nodes IN
          \A a \in AllAddrs :
             (Contains(rc.model, a) /\ Contains(listed, a)) =>
                 /\ nodes'[a] = nodes[a]
                 /\ \A i \in 1..Len(emitted'.events) :
                      emitted'.events[i].rec.address # a
      ]_vars

\* C39's case: a second reconciliation has completed, having added and
\* removed nodes or not, over a store in which the persistor had recorded
\* the device status of a node the model names.
C39_Witness ==
    /\ rc.pass = 2
    /\ rc.pc = "done"
    /\ op_res.by = "reconcile"
    /\ op_res.call.op = "remove_many"
    /\ \E a \in AllAddrs :
         /\ Contains(rc.model, a)
         /\ nodes[a] # Nil
         /\ nodes[a][1].device_status # Nil


\* C40: the reconciliation succeeds for every node list the loader can
\* produce, also one that names the same address more than once: unless a
\* commit fails with an I/O error it does not return an error, and once it
\* is done every address of the list is in the store, under one key.
\* (Checked under SpecReconcile.)
C40_DuplicatesReconcile ==
    /\ rc.pc = "failed" => op_res.res = "io"
    /\ (rc.pc = "done" /\ rc.clean) =>
           \A i \in 1..Len(rc.model) : nodes[rc.model[i]] # Nil

====
